---- MODULE Spec2Model ----
(***************************************************************************)
(* A model of the conversation-to-booking orchestrator of reservation-api: *)
(* the booking store and its lifecycle operations (BookingService), the    *)
(* slot availability check (SlotService), the handoff tickets              *)
(* (HandoffService), the conversation record, and one conversation turn    *)
(* (ChatService.send_message) with its reconciliation steps.               *)
(***************************************************************************)
EXTENDS Integers, Sequences, FiniteSets, TLC

VARIABLES bookings, handoffs, conversations, messages, inflight, calendar, last

vars == <<bookings, handoffs, conversations, messages, inflight, calendar, last>>

----------------------------------------------------------------------------
(* Optional values: Python's None is the empty tuple, a value v is <<v>>.  *)
(* Truthiness (`if x:`) of an optional field is IsSome.                    *)

None == <<>>

Some(v) == <<v>>

IsSome(o) == o # None

Val(o) == o[1]

\* Python's `a or b` on optional values.
OrElse(a, b) == IF IsSome(a) THEN a ELSE b

----------------------------------------------------------------------------
(* Bounds of the model.                                                    *)

\* Turns (send_message calls) over all conversations in one behaviour.
MaxTurns == 2

\* Rows of the bookings table.
MaxBookings == 2

----------------------------------------------------------------------------
(* The domains the inputs are drawn from.                                  *)

Convs == {"conv1", "conv2"}

\* conv2 is the conversation of a voice call (CallSessionService.start_call).
VoiceConvs == {"conv2"}

\* The live catalog of the business: service id -> service name.
Catalog == [svc1 |-> "Haircut"]

ServiceIds == DOMAIN Catalog

\* The name the oracle may report: the catalog name in another case.
ServiceNames == {"haircut"}

Lower(s) == IF s = "Haircut" THEN "haircut" ELSE IF s = "Massage" THEN "massage" ELSE s

\* Hours of the one date the oracle reports; a date without a time is noon.
Times == {10}

Noon == 12

TrackingCodes == {"BK-A1B2C3", "BK-D4E5F6"}

TicketCodes == {"HO-A1B2C3", "HO-D4E5F6"}

Names == {"Jane"}

Phones == {"555-1234"}

Emails == {"jane@x.com"}

\* booking_status_enum of the bookings table.
BookingStatuses ==
    {"INITIATED", "SLOT_SELECTED", "CONTACT_COLLECTED", "PAYMENT_PENDING",
     "CONFIRMED", "CANCELLED", "FAILED", "HUMAN_HANDOFF", "PENDING_PAYMENT",
     "CANCELED", "RESCHEDULED", "EXPIRED"}

\* The statuses the availability and active-booking queries exclude.
InactiveStatuses == {"CANCELLED", "CANCELED", "FAILED", "EXPIRED"}

\* The terminal statuses of the booking state machine.
TerminalStatuses == {"CANCELLED", "FAILED", "EXPIRED"}

Opt(S) == {None} \cup {Some(v) : v \in S}

----------------------------------------------------------------------------
(* BookingService: each operation maps the bookings table to the table     *)
(* after it; booking ids are row numbers, so created_at order is row order.*)
(* An operation that can raise ValueError returns [ok, bookings].          *)

Raise(bk) == [ok |-> FALSE, bookings |-> bk]

Return(bk) == [ok |-> TRUE, bookings |-> bk]

\* select(Booking).where(Booking.id == booking_id).scalar_one_or_none()
BookingExists(bk, id) == id \in DOMAIN bk

\* select(Booking).where(Booking.public_tracking_id == tracking_id): the
\* comparison is exact string equality.
FindByTrackingId(bk, tracking_id) ==
    { i \in DOMAIN bk : bk[i].public_tracking_id = tracking_id }

NewBooking(service_id, conversation_id, tracking_id) ==
    [ conversation_id    |-> conversation_id,
      service_id         |-> service_id,
      public_tracking_id |-> tracking_id,
      status             |-> "INITIATED",
      slot_start         |-> None,
      slot_end           |-> None,
      customer_name      |-> None,
      customer_phone     |-> None,
      customer_email     |-> None ]

\* tracking_id is the code the collision-retry loop ends with.
create_booking(bk, service_id, conversation_id, tracking_id) ==
    Append(bk, NewBooking(service_id, conversation_id, tracking_id))

update_slot(bk, booking_id, slot_start, slot_end) ==
    IF ~BookingExists(bk, booking_id) THEN Raise(bk)
    ELSE Return([bk EXCEPT ![booking_id].slot_start = Some(slot_start),
                           ![booking_id].slot_end = Some(slot_end),
                           ![booking_id].status = "SLOT_SELECTED"])

update_contact(bk, booking_id, customer_name, customer_phone, customer_email) ==
    IF ~BookingExists(bk, booking_id) THEN Raise(bk)
    ELSE Return([bk EXCEPT ![booking_id].customer_name = customer_name,
                           ![booking_id].customer_phone = customer_phone,
                           ![booking_id].customer_email = customer_email,
                           ![booking_id].status = "CONTACT_COLLECTED"])

confirm_booking(bk, booking_id) ==
    IF ~BookingExists(bk, booking_id) THEN Raise(bk)
    ELSE Return([bk EXCEPT ![booking_id].status = "CONFIRMED"])

\* The dictionary get_booking returns (None when the row does not exist).
get_booking(bk, booking_id) ==
    IF ~BookingExists(bk, booking_id) THEN None
    ELSE Some([ booking_id |-> booking_id ] @@ bk[booking_id])

\* A plausible slip: CONFIRMED is among the excluded statuses.
get_booking_by_conversation_unconfirmed(bk, conversation_id) ==
    LET rows == { i \in DOMAIN bk :
                    /\ bk[i].conversation_id = conversation_id
                    /\ bk[i].status \notin InactiveStatuses \cup {"CONFIRMED"} }
    IN  IF rows = {} THEN None
        ELSE get_booking(bk, CHOOSE i \in rows : \A j \in rows : j <= i)

\* The newest booking of the conversation whose status is not excluded.
\* A plausible slip: the conversation filter is left out of the query.
get_booking_by_conversation_unfiltered(bk, conversation_id) ==
    LET rows == { i \in DOMAIN bk : bk[i].status \notin InactiveStatuses }
    IN  IF rows = {} THEN None
        ELSE get_booking(bk, CHOOSE i \in rows : \A j \in rows : j <= i)

get_booking_by_conversation(bk, conversation_id) ==
    LET rows == { i \in DOMAIN bk :
                    /\ bk[i].conversation_id = conversation_id
                    /\ bk[i].status \notin InactiveStatuses }
    IN  IF rows = {} THEN None
        ELSE get_booking(bk, CHOOSE i \in rows : \A j \in rows : j <= i)

get_booking_by_tracking_id(bk, tracking_id) ==
    LET rows == FindByTrackingId(bk, tracking_id)
    IN  IF rows = {} THEN None
        ELSE get_booking(bk, CHOOSE i \in rows : TRUE)

\* A plausible slip: the already-cancelled guard is left out.
cancel_booking_unguarded(bk, booking_id) ==
    IF ~BookingExists(bk, booking_id) THEN Raise(bk)
    ELSE Return([bk EXCEPT ![booking_id].status = "CANCELLED"])

cancel_booking(bk, booking_id) ==
    IF ~BookingExists(bk, booking_id) THEN Raise(bk)
    ELSE IF bk[booking_id].status \in {"CANCELLED", "CANCELED"} THEN Raise(bk)
    ELSE Return([bk EXCEPT ![booking_id].status = "CANCELLED"])

cancel_booking_by_tracking_id(bk, tracking_id) ==
    LET rows == FindByTrackingId(bk, tracking_id)
    IN  IF rows = {} THEN Raise(bk)
        ELSE LET i == CHOOSE i \in rows : TRUE
             IN  IF bk[i].status \in {"CANCELLED", "CANCELED"} THEN Raise(bk)
                 ELSE Return([bk EXCEPT ![i].status = "CANCELLED"])

reschedule_booking(bk, booking_id, new_slot_start, new_slot_end) ==
    IF ~BookingExists(bk, booking_id) THEN Raise(bk)
    ELSE IF bk[booking_id].status \in {"CANCELLED", "CANCELED", "FAILED"} THEN Raise(bk)
    ELSE Return([bk EXCEPT ![booking_id].slot_start = Some(new_slot_start),
                           ![booking_id].slot_end = Some(new_slot_end),
                           ![booking_id].status = "RESCHEDULED"])

reschedule_booking_by_tracking_id(bk, tracking_id, new_slot_start, new_slot_end) ==
    LET rows == FindByTrackingId(bk, tracking_id)
    IN  IF rows = {} THEN Raise(bk)
        ELSE reschedule_booking(bk, CHOOSE i \in rows : TRUE,
                                new_slot_start, new_slot_end)

----------------------------------------------------------------------------
(* SlotService.                                                            *)

\* The rows the availability query selects: same service, exactly the same
\* start instant, status not excluded.
SlotHolders(bk, service_id, slot_start) ==
    { i \in DOMAIN bk :
        /\ bk[i].service_id = service_id
        /\ bk[i].slot_start = Some(slot_start)
        /\ bk[i].status \notin InactiveStatuses }

\* "free": no row (the slot is available); "taken": exactly one row;
\* "raise": scalar_one_or_none() finds several rows and raises
\* MultipleResultsFound.
check_slot_available(bk, service_id, slot_start) ==
    LET n == Cardinality(SlotHolders(bk, service_id, slot_start))
    IN  IF n = 0 THEN "free" ELSE IF n = 1 THEN "taken" ELSE "raise"

\* Instants are hours counted from 00:00 of date 0; a date is a day number.
DateOf(t) == t \div 24

At(date, hour) == 24 * date + hour

\* date.weekday()
Weekday(date) == date % 7

\* The default slot_duration_minutes, in hours.
DefaultDuration == 1

\* The default num_alternatives.
NumAlternatives == 5

\* The while loop of step 3: the starts of the consecutive windows of
\* `duration` from `current` on that end at `end_of_day` or before.
RECURSIVE Windows(_, _, _)
Windows(current, end_of_day, duration) ==
    IF current + duration <= end_of_day
    THEN <<current>> \o Windows(current + duration, end_of_day, duration)
    ELSE <<>>

NoSlots == [ raised |-> FALSE, slots |-> <<>> ]

SlotsRaised == [ raised |-> TRUE, slots |-> <<>> ]

\* get_available_slots: the starts of the available windows of the date, in
\* order (the end of a window is its start plus the duration). cal.hours
\* holds the operating-hours row of each weekday (None: no row),
\* cal.closures the number of CLOSED exceptions that overlap each date; two
\* of them make scalar_one_or_none() raise, as two holders of a window do.
get_available_slots(bk, cal, service_id, target_date, duration) ==
    LET operating_hours == cal.hours[Weekday(target_date)]
    IN  IF operating_hours = None THEN NoSlots
        ELSE IF Val(operating_hours).is_closed THEN NoSlots
        ELSE IF Val(operating_hours).open_time = None
                \/ Val(operating_hours).close_time = None THEN NoSlots
        ELSE IF cal.closures[target_date] > 1 THEN SlotsRaised
        ELSE IF cal.closures[target_date] = 1 THEN NoSlots
        ELSE LET slots == Windows(At(target_date, Val(Val(operating_hours).open_time)),
                                  At(target_date, Val(Val(operating_hours).close_time)),
                                  duration)
                 free(t) == check_slot_available(bk, service_id, t) = "free"
             IN  IF \E k \in DOMAIN slots :
                        check_slot_available(bk, service_id, slots[k]) = "raise"
                 THEN SlotsRaised
                 ELSE [ raised |-> FALSE, slots |-> SelectSeq(slots, free) ]

\* abs((slot_start - requested_slot).total_seconds()), in hours.
time_distance(slot, requested_slot) ==
    IF slot >= requested_slot THEN slot - requested_slot ELSE requested_slot - slot

\* list.sort(key=time_distance): a stable sort, by insertion.
RECURSIVE InsertByDistance(_, _, _)
InsertByDistance(sorted, slot, requested_slot) ==
    IF sorted = <<>> THEN <<slot>>
    ELSE IF time_distance(slot, requested_slot) < time_distance(Head(sorted), requested_slot)
    THEN <<slot>> \o sorted
    ELSE <<Head(sorted)>> \o InsertByDistance(Tail(sorted), slot, requested_slot)

RECURSIVE SortByDistance(_, _)
SortByDistance(slots, requested_slot) ==
    IF slots = <<>> THEN <<>>
    ELSE InsertByDistance(SortByDistance(SubSeq(slots, 1, Len(slots) - 1), requested_slot),
                          slots[Len(slots)], requested_slot)

\* all_slots[:n]
Take(seq, n) == SubSeq(seq, 1, IF Len(seq) < n THEN Len(seq) ELSE n)

get_alternative_slots(bk, cal, service_id, requested_slot, num_alternatives) ==
    LET target_date == DateOf(requested_slot)
        today == get_available_slots(bk, cal, service_id, target_date, DefaultDuration)
        tomorrow == get_available_slots(bk, cal, service_id, target_date + 1,
                                        DefaultDuration)
    IN  IF today.raised THEN SlotsRaised
        ELSE IF Len(today.slots) < num_alternatives /\ tomorrow.raised THEN SlotsRaised
        ELSE LET all_slots == IF Len(today.slots) < num_alternatives
                              THEN today.slots \o tomorrow.slots
                              ELSE today.slots
             IN  [ raised |-> FALSE,
                   slots  |-> Take(SortByDistance(all_slots, requested_slot),
                                   num_alternatives) ]

\* The result dictionary, or raised when a query of the call raised.
validate_and_reserve_slot(bk, cal, service_id, slot_start, slot_end) ==
    LET is_available == check_slot_available(bk, service_id, slot_start)
        alternatives == get_alternative_slots(bk, cal, service_id, slot_start,
                                              NumAlternatives)
    IN  IF is_available = "raise"
        THEN [ available |-> FALSE, raised |-> TRUE, alternatives |-> <<>> ]
        ELSE IF is_available = "free"
        THEN [ available |-> TRUE, raised |-> FALSE, alternatives |-> <<>> ]
        ELSE [ available |-> FALSE, raised |-> alternatives.raised,
               alternatives |-> alternatives.slots ]

\* The public slots endpoint, for an active service of the business and a
\* date after today: every window of the date with its available flag. It
\* reads the operating hours and the bookings itself and does not call the
\* SlotService.
public_get_available_slots(bk, cal, service_id, target_date) ==
    LET operating_hours == cal.hours[Weekday(target_date)]
        has_row == IsSome(operating_hours)
        open_time == IF has_row THEN Val(operating_hours).open_time ELSE Some(9)
        close_time == IF has_row THEN Val(operating_hours).close_time ELSE Some(18)
        booked_times ==
            { Val(bk[i].slot_start) % 24 : i \in
                { j \in DOMAIN bk :
                    /\ bk[j].service_id = service_id
                    /\ IsSome(bk[j].slot_start)
                    /\ DateOf(Val(bk[j].slot_start)) = target_date
                    /\ bk[j].status \notin InactiveStatuses } }
        starts == Windows(At(target_date, Val(open_time)),
                          At(target_date, Val(close_time)), DefaultDuration)
    IN  IF has_row /\ Val(operating_hours).is_closed THEN <<>>
        ELSE [ k \in DOMAIN starts |->
                 [ time |-> starts[k], available |-> (starts[k] % 24) \notin booked_times ] ]

----------------------------------------------------------------------------
(* HandoffService.                                                         *)

\* A plausible slip: the lookup filters on nothing it can match.
get_handoff_by_conversation_none(ho, conversation_id) == None

\* The newest handoff of the conversation, with its row number as id.
get_handoff_by_conversation(ho, conversation_id) ==
    LET rows == { i \in DOMAIN ho : ho[i].conversation_id = conversation_id }
    IN  IF rows = {} THEN None
        ELSE LET i == CHOOSE i \in rows : \A j \in rows : j <= i
             IN  Some([ handoff_id |-> i ] @@ ho[i])

\* ticket_id is the code the collision-retry loop ends with. The handoff is
\* added and the conversation is marked escalated in one commit.
create_handoff(ho, cv, conversation_id, contact_name, contact_phone, contact_email, booking_id, ticket_id) ==
    [ handoffs |->
        Append(ho, [ conversation_id  |-> conversation_id,
                     booking_id       |-> booking_id,
                     public_ticket_id |-> ticket_id,
                     contact_name     |-> contact_name,
                     contact_phone    |-> contact_phone,
                     contact_email    |-> contact_email,
                     status           |-> "OPEN" ]),
      conversations |->
        [cv EXCEPT ![conversation_id] =
            [ status |-> "RESOLVED",
              resolution_type |-> Some("HUMAN_ESCALATED"),
              outcome |-> Some("ESCALATED") ]] ]

----------------------------------------------------------------------------
(* The conversation graph: parse_message_node, route_after_parse and the   *)
(* handler nodes, on the fields of BookingState the service layer reads.   *)

Intents ==
    {"greet", "list_services", "select_service", "ask_service_details",
     "select_slot", "provide_contact", "confirm_booking", "complete_booking",
     "check_status", "cancel_booking", "confirm_cancel", "reschedule",
     "escalate", "cancel", "other"}

\* The slot strings of the conversation state. A stored slot_start is read
\* back with its UTC offset ("2025-01-15T10:00:00+00:00"); the string built
\* from the oracle's date and time has none ("2025-01-15T10:00:00"). The two
\* name the same instant (the database session runs in UTC) and are
\* different strings.
isoformat(instant) == [instant |-> instant, utc_offset |-> TRUE]

SlotString(instant) == [instant |-> instant, utc_offset |-> FALSE]

fromisoformat(slot_string) == slot_string.instant

\* The state send_message builds before it runs the graph.
BuildState(bk, ho, conversation_id) ==
    LET existing_booking == get_booking_by_conversation(bk, conversation_id)
        existing_handoff == get_handoff_by_conversation(ho, conversation_id)
        has_b == IsSome(existing_booking)
        b == Val(existing_booking)
        has_h == IsSome(existing_handoff)
        h == Val(existing_handoff)
    IN  [ conversation_id      |-> conversation_id,
          needs_escalation     |-> FALSE,
          slot_unavailable     |-> FALSE,
          parsed_intent        |-> "other",
          mentioned_booking_id |-> None,
          booking_id           |-> IF has_b THEN Some(b.booking_id) ELSE None,
          public_tracking_id   |-> IF has_b THEN Some(b.public_tracking_id) ELSE None,
          selected_service_id  |-> IF has_b THEN Some(b.service_id) ELSE None,
          selected_slot_start  |-> IF has_b /\ IsSome(b.slot_start)
                                   THEN Some(isoformat(Val(b.slot_start))) ELSE None,
          selected_slot_end    |-> IF has_b THEN b.slot_end ELSE None,
          customer_name        |-> IF has_b THEN b.customer_name ELSE None,
          customer_phone       |-> IF has_b THEN b.customer_phone ELSE None,
          customer_email       |-> IF has_b THEN b.customer_email ELSE None,
          booking_status       |-> IF has_b THEN Some(b.status) ELSE None,
          handoff_id           |-> IF has_h THEN Some(h.handoff_id) ELSE None,
          handoff_ticket_id    |-> IF has_h THEN Some(h.public_ticket_id) ELSE None ]

\* The catalog entries whose name equals the mentioned name, ignoring case.
MatchService(service_mentioned) ==
    { id \in ServiceIds : Lower(Catalog[id]) = Lower(service_mentioned) }

\* The oracle's extraction `ex` written into the state.
parse_message_node(state, ex) ==
    LET matched == IF IsSome(ex.service_mentioned)
                   THEN MatchService(Val(ex.service_mentioned)) ELSE {}
    IN  [ state EXCEPT
            !.parsed_intent = ex.intent,
            !.selected_service_id =
                IF matched # {} THEN Some(CHOOSE id \in matched : TRUE) ELSE @,
            !.selected_slot_start =
                IF ex.date_mentioned /\ IsSome(ex.time_mentioned)
                THEN Some(SlotString(Val(ex.time_mentioned)))
                ELSE IF ex.date_mentioned THEN Some(SlotString(Noon))
                ELSE @,
            !.customer_name = IF IsSome(ex.name) THEN ex.name ELSE @,
            !.customer_phone = IF IsSome(ex.phone) THEN ex.phone ELSE @,
            !.customer_email = IF IsSome(ex.email) THEN ex.email ELSE @,
            !.needs_escalation = IF ex.wants_human THEN TRUE ELSE @,
            !.mentioned_booking_id =
                IF IsSome(ex.booking_id_mentioned) THEN ex.booking_id_mentioned ELSE @ ]

\* A plausible slip: the escalation signal is read after the dispatch on
\* the intent.
route_after_parse_intent_first(state) ==
    LET intent == state.parsed_intent
    IN  IF intent = "greet" THEN "greet_node"
        ELSE IF intent = "list_services" THEN "list_services_node"
        ELSE IF intent = "select_service" THEN "handle_service_selection_node"
        ELSE IF intent = "ask_service_details" THEN "show_service_details_node"
        ELSE IF intent = "select_slot" THEN "handle_slot_selection_node"
        ELSE IF intent = "provide_contact" THEN "handle_contact_node"
        ELSE IF intent = "confirm_booking" THEN "confirm_booking_node"
        ELSE IF intent = "complete_booking" THEN "confirm_booking_node"
        ELSE IF intent = "check_status" THEN "check_status_node"
        ELSE IF intent = "cancel_booking" THEN "cancel_booking_node"
        ELSE IF intent = "confirm_cancel" THEN "confirm_cancel_node"
        ELSE IF intent = "reschedule" THEN "reschedule_node"
        ELSE IF intent = "escalate" THEN "escalate_node"
        ELSE IF state.needs_escalation THEN "escalate_node"
        ELSE "general_response_node"

route_after_parse(state) ==
    LET intent == state.parsed_intent
    IN  IF state.needs_escalation THEN "escalate_node"
        ELSE IF intent = "greet" THEN "greet_node"
        ELSE IF intent = "list_services" THEN "list_services_node"
        ELSE IF intent = "select_service" THEN "handle_service_selection_node"
        ELSE IF intent = "ask_service_details" THEN "show_service_details_node"
        ELSE IF intent = "select_slot" THEN "handle_slot_selection_node"
        ELSE IF intent = "provide_contact" THEN "handle_contact_node"
        ELSE IF intent = "confirm_booking" THEN "confirm_booking_node"
        ELSE IF intent = "complete_booking" THEN "confirm_booking_node"
        ELSE IF intent = "check_status" THEN "check_status_node"
        ELSE IF intent = "cancel_booking" THEN "cancel_booking_node"
        ELSE IF intent = "confirm_cancel" THEN "confirm_cancel_node"
        ELSE IF intent = "reschedule" THEN "reschedule_node"
        ELSE IF intent = "escalate" THEN "escalate_node"
        ELSE "general_response_node"

HasAllInfo(state) ==
    /\ IsSome(state.selected_service_id)
    /\ IsSome(state.selected_slot_start)
    /\ IsSome(state.customer_name)
    /\ IsSome(state.customer_phone)
    /\ IsSome(state.customer_email)

confirm_booking_node(state) ==
    IF ~HasAllInfo(state) THEN state
    ELSE [state EXCEPT !.booking_status = Some("CONTACT_COLLECTED")]

escalate_node(state) == [state EXCEPT !.needs_escalation = TRUE]

\* The handler nodes create_booking_graph adds, each a target of the
\* conditional edges after parse_message_node and each followed by END.
HandlerNodes ==
    {"greet_node", "list_services_node", "handle_service_selection_node",
     "handle_slot_selection_node", "handle_contact_node", "confirm_booking_node",
     "escalate_node", "general_response_node", "show_service_details_node",
     "check_status_node", "cancel_booking_node", "reschedule_node",
     "confirm_cancel_node"}

\* The handler the router names, applied; the other handlers write only the
\* response text and next_action.
RunNode(node, state) ==
    IF node = "escalate_node" THEN escalate_node(state)
    ELSE IF node = "confirm_booking_node" THEN confirm_booking_node(state)
    ELSE state

\* What parse_message_node reads with .get() from an object that has none of
\* the expected keys, as the dictionary of a JSON decode error has.
NoKeys ==
    [ intent |-> "other", service_mentioned |-> None, date_mentioned |-> FALSE,
      time_mentioned |-> None, name |-> None, phone |-> None, email |-> None,
      wants_human |-> FALSE, booking_id_mentioned |-> None ]

\* extract_json_from_llm on the completion's message.content. The kinds of
\* content: "object" (a JSON object, read as the extraction ex),
\* "null_contact" (a JSON object whose contact_info is null), "not_object"
\* (valid JSON that is not an object, such as a list), "not_json" (text that
\* is not JSON), "none" (no content) and "call_failed" (the completion call
\* itself raised: a timeout or a connection or API error, after the client's
\* retries). json.loads raises JSONDecodeError, which is caught, on text that
\* is not JSON, and TypeError, which is not, on None; the call is made
\* outside the try block.
extract_json_from_llm(content) ==
    IF content.kind \in {"none", "call_failed"}
    THEN [ raised |-> TRUE, extracted |-> content ]
    ELSE IF content.kind = "not_json"
    THEN [ raised |-> FALSE, extracted |-> [kind |-> "object", ex |-> NoKeys] ]
    ELSE [ raised |-> FALSE, extracted |-> content ]

\* Whether parse_message_node raises on what was extracted: .get() on a value
\* that is not a dictionary and contact.get() on a null contact_info raise
\* AttributeError.
parse_raises(content) ==
    \/ extract_json_from_llm(content).raised
    \/ extract_json_from_llm(content).extracted.kind \in {"not_object", "null_contact"}

\* booking_graph.ainvoke(state): parse, route, one handler, END.
booking_graph(state, ex) ==
    LET parsed == parse_message_node(state, ex)
    IN  RunNode(route_after_parse(parsed), parsed)

----------------------------------------------------------------------------
(* ChatService: the service layer of one turn. A turn context holds the    *)
(* tables as committed so far, the graph's result state, whether the       *)
(* session has committed (every service write commits, and with it the     *)
(* pending user message), and whether an exception has ended the turn.     *)

NewCtx(bk, ho, cv, state) ==
    [ bookings |-> bk, handoffs |-> ho, conversations |-> cv, state |-> state,
      committed |-> FALSE, raised |-> FALSE, confirmed |-> FALSE ]

\* _handle_special_intents: check_status only rewrites the response.
handle_special_intents(ctx, old_state) ==
    LET st == ctx.state
        intent == st.parsed_intent
        mentioned_booking_id ==
            OrElse(st.mentioned_booking_id, old_state.mentioned_booking_id)
    IN  IF intent = "confirm_cancel" THEN
            LET tracking_id == OrElse(mentioned_booking_id, old_state.public_tracking_id)
                res == cancel_booking_by_tracking_id(ctx.bookings, Val(tracking_id))
            IN  IF tracking_id = None THEN ctx
                ELSE IF ~res.ok THEN ctx
                ELSE [ctx EXCEPT !.bookings = res.bookings,
                                 !.committed = TRUE,
                                 !.state.booking_status = Some("CANCELLED")]
        ELSE IF intent = "reschedule" /\ IsSome(mentioned_booking_id) THEN
            LET new_slot == st.selected_slot_start
                res == reschedule_booking_by_tracking_id(
                           ctx.bookings, Val(mentioned_booking_id),
                           fromisoformat(Val(new_slot)), fromisoformat(Val(new_slot)) + 1)
            IN  IF new_slot = None THEN ctx
                ELSE IF ~res.ok THEN ctx
                ELSE [ctx EXCEPT !.bookings = res.bookings,
                                 !.committed = TRUE,
                                 !.state.booking_status = Some("RESCHEDULED")]
        ELSE ctx

\* Step 1: create the booking when a service is selected and the turn
\* started without an active booking.
CreatesBooking(state, old_state) ==
    IsSome(state.selected_service_id) /\ old_state.booking_id = None

Step1(ctx, old_state, tracking_id) ==
    IF ctx.raised \/ ~CreatesBooking(ctx.state, old_state) THEN ctx
    ELSE [ctx EXCEPT
            !.bookings = create_booking(@, Val(ctx.state.selected_service_id),
                                        ctx.state.conversation_id, tracking_id),
            !.committed = TRUE,
            !.state.booking_id = Some(Len(ctx.bookings) + 1),
            !.state.public_tracking_id = Some(tracking_id)]

ActiveBookingId(ctx, old_state) == OrElse(ctx.state.booking_id, old_state.booking_id)

\* Step 2, first half: whether the turn asks for a slot write.
WantsSlot(ctx, old_state) ==
    /\ IsSome(ctx.state.selected_slot_start)
    /\ ctx.state.selected_slot_start # old_state.selected_slot_start
    /\ ctx.state.parsed_intent \notin {"reschedule"}
    /\ IsSome(OrElse(ctx.state.selected_service_id, old_state.selected_service_id))
    /\ IsSome(ActiveBookingId(ctx, old_state))

\* Step 2, the availability check: "skip", "free", "taken" or "raise".
Step2Check(ctx, old_state) ==
    IF ctx.raised \/ ~WantsSlot(ctx, old_state) THEN "skip"
    ELSE LET slot_start == fromisoformat(Val(ctx.state.selected_slot_start))
             chk == validate_and_reserve_slot(
                        ctx.bookings, calendar,
                        Val(OrElse(ctx.state.selected_service_id,
                                   old_state.selected_service_id)),
                        slot_start, slot_start + 1)
         IN  IF chk.raised THEN "raise" ELSE IF chk.available THEN "free" ELSE "taken"

\* A plausible slip: the attempted slot stays in the state on a conflict.
Step2Write_keeps_slot(ctx, old_state, check) ==
    IF check = "skip" THEN ctx
    ELSE IF check = "raise" THEN [ctx EXCEPT !.raised = TRUE]
    ELSE IF check = "free" THEN
        LET slot_start == fromisoformat(Val(ctx.state.selected_slot_start))
            res == update_slot(ctx.bookings, Val(ActiveBookingId(ctx, old_state)),
                               slot_start, slot_start + 1)
        IN  IF ~res.ok THEN ctx
            ELSE [ctx EXCEPT !.bookings = res.bookings,
                             !.committed = TRUE,
                             !.state.booking_status = Some("SLOT_SELECTED")]
    ELSE [ctx EXCEPT !.state.slot_unavailable = TRUE]

\* Step 2, second half: the slot write after the check said `check`.
Step2Write(ctx, old_state, check) ==
    IF check = "skip" THEN ctx
    ELSE IF check = "raise" THEN [ctx EXCEPT !.raised = TRUE]
    ELSE IF check = "free" THEN
        LET slot_start == fromisoformat(Val(ctx.state.selected_slot_start))
            res == update_slot(ctx.bookings, Val(ActiveBookingId(ctx, old_state)),
                               slot_start, slot_start + 1)
        IN  IF ~res.ok THEN ctx
            ELSE [ctx EXCEPT !.bookings = res.bookings,
                             !.committed = TRUE,
                             !.state.booking_status = Some("SLOT_SELECTED")]
    ELSE [ctx EXCEPT !.state.slot_unavailable = TRUE,
                     !.state.selected_slot_start = None]

\* Step 3: persist the contact when all three fields are known and differ
\* from the stored ones.
Step3(ctx, old_state) ==
    LET st == ctx.state
        booking_id == ActiveBookingId(ctx, old_state)
    IN  IF \/ ctx.raised
           \/ booking_id = None
           \/ ~(IsSome(st.customer_name) /\ IsSome(st.customer_phone)
                /\ IsSome(st.customer_email))
           \/ ~(\/ st.customer_name # old_state.customer_name
                \/ st.customer_phone # old_state.customer_phone
                \/ st.customer_email # old_state.customer_email)
        THEN ctx
        ELSE LET res == update_contact(ctx.bookings, Val(booking_id), st.customer_name,
                                       st.customer_phone, st.customer_email)
             IN  [ctx EXCEPT !.bookings = res.bookings,
                             !.committed = TRUE,
                             !.state.booking_status = Some("CONTACT_COLLECTED")]

\* A plausible slip: the all-data-in-one-message case is left out.
ShouldConfirm_by_intent(intent, booking, all_data_in_one_message) ==
    \/ intent = "confirm_booking" /\ booking.status = "CONTACT_COLLECTED"
    \/ /\ intent = "complete_booking"
       /\ IsSome(booking.slot_start)
       /\ IsSome(booking.customer_name)
       /\ IsSome(booking.customer_phone)
       /\ IsSome(booking.customer_email)

\* should_confirm of step 4, on the booking as read back from the table.
ShouldConfirm(intent, booking, all_data_in_one_message) ==
    LET has_service == IsSome(Some(booking.service_id))
        has_slot == IsSome(booking.slot_start)
        has_contact == /\ IsSome(booking.customer_name)
                       /\ IsSome(booking.customer_phone)
                       /\ IsSome(booking.customer_email)
    IN  \/ intent = "confirm_booking" /\ booking.status = "CONTACT_COLLECTED"
        \/ intent = "complete_booking" /\ has_service /\ has_slot /\ has_contact
        \/ all_data_in_one_message /\ has_service /\ has_slot /\ has_contact

Step4(ctx, old_state) ==
    LET st == ctx.state
        booking_id == ActiveBookingId(ctx, old_state)
        booking == get_booking(ctx.bookings, Val(booking_id))
        all_data_in_one_message == HasAllInfo(st) /\ old_state.booking_id = None
    IN  IF ctx.raised \/ booking_id = None \/ booking = None THEN ctx
        ELSE IF /\ ShouldConfirm(st.parsed_intent, Val(booking), all_data_in_one_message)
                /\ Val(booking).status # "CONFIRMED"
        THEN [ctx EXCEPT !.bookings = confirm_booking(@, Val(booking_id)).bookings,
                         !.committed = TRUE,
                         !.confirmed = TRUE,
                         !.state.booking_status = Some("CONFIRMED")]
        ELSE ctx

\* A plausible slip: the handoff waits for the full contact triple.
CreatesHandoff_full_contact(state, old_state) ==
    /\ state.needs_escalation
    /\ old_state.handoff_id = None
    /\ IsSome(OrElse(state.customer_name, old_state.customer_name))
    /\ IsSome(OrElse(state.customer_phone, old_state.customer_phone))
    /\ IsSome(OrElse(state.customer_email, old_state.customer_email))

\* Step 5: escalation creates a handoff when the turn started without one
\* and at least one contact field is known.
CreatesHandoff(state, old_state) ==
    /\ state.needs_escalation
    /\ old_state.handoff_id = None
    /\ \/ IsSome(OrElse(state.customer_name, old_state.customer_name))
       \/ IsSome(OrElse(state.customer_phone, old_state.customer_phone))
       \/ IsSome(OrElse(state.customer_email, old_state.customer_email))

Step5(ctx, old_state, ticket_id) ==
    LET st == ctx.state
        h == create_handoff(ctx.handoffs, ctx.conversations, st.conversation_id,
                            OrElse(st.customer_name, old_state.customer_name),
                            OrElse(st.customer_phone, old_state.customer_phone),
                            OrElse(st.customer_email, old_state.customer_email),
                            ActiveBookingId(ctx, old_state), ticket_id)
    IN  IF ctx.raised \/ ~CreatesHandoff(st, old_state) THEN ctx
        ELSE [ctx EXCEPT !.handoffs = h.handoffs,
                         !.conversations = h.conversations,
                         !.committed = TRUE,
                         !.state.handoff_id = Some(Len(ctx.handoffs) + 1),
                         !.state.handoff_ticket_id = Some(ticket_id)]

\* A plausible slip: the status is set whatever the escalation flag says.
UpdateConversation_always(conversation, state) ==
    [conversation EXCEPT !.status = "IN_PROGRESS"]

\* "Update conversation" at the end of send_message.
UpdateConversation(conversation, state) ==
    IF ~state.needs_escalation THEN [conversation EXCEPT !.status = "IN_PROGRESS"]
    ELSE conversation

\* The response text of a turn, as written for the chat channel (it may
\* hold markdown and line breaks and be of any length): the ticket notice,
\* the slot-unavailable notice or the text of the graph's handler.
ResponseText(ctx, old_state) ==
    [ about |-> IF IsSome(ctx.state.handoff_ticket_id) /\ old_state.handoff_id = None
                THEN "ticket"
                ELSE IF ctx.state.slot_unavailable THEN "slot_unavailable"
                ELSE "handler",
      form  |-> "written" ]

\* _shorten_for_voice: markdown and line breaks removed, the text cut to
\* whole sentences of about 250 characters.
shorten_for_voice(text) == [text EXCEPT !.form = "spoken"]

\* The dictionary ChatService.send_message returns.
send_message_result(c, ctx, old_state) ==
    LET updated_booking == get_booking_by_conversation(ctx.bookings, c)
        updated_handoff == get_handoff_by_conversation(ctx.handoffs, c)
    IN  [ conversation_id    |-> c,
          response           |-> ResponseText(ctx, old_state),
          intent             |-> ctx.state.parsed_intent,
          needs_escalation   |-> ctx.state.needs_escalation,
          selected_slot      |-> ctx.state.selected_slot_start,
          booking_id         |-> IF IsSome(updated_booking)
                                 THEN Some(Val(updated_booking).booking_id) ELSE None,
          public_tracking_id |-> IF IsSome(updated_booking)
                                 THEN Some(Val(updated_booking).public_tracking_id)
                                 ELSE None,
          booking_status     |-> IF IsSome(updated_booking)
                                 THEN Some(Val(updated_booking).status) ELSE None,
          slot_unavailable   |-> ctx.state.slot_unavailable,
          handoff_ticket_id  |-> IF IsSome(updated_handoff)
                                 THEN Some(Val(updated_handoff).public_ticket_id)
                                 ELSE None ]

\* A plausible slip: the voice service builds its own dictionary from the
\* response and the intent.
voice_send_message_rebuilt(result) ==
    [ result EXCEPT !.response = shorten_for_voice(@),
                    !.booking_id = None, !.public_tracking_id = None,
                    !.booking_status = None, !.handoff_ticket_id = None ]

\* VoiceChatService.send_message on the dictionary super().send_message
\* returned.
voice_send_message(result) == [result EXCEPT !.response = shorten_for_voice(@)]

\* The part of a turn up to the availability check of step 2.
TurnHead(bk, ho, cv, old_state, ex, tracking_id) ==
    Step1(handle_special_intents(NewCtx(bk, ho, cv, booking_graph(old_state, ex)),
                                 old_state),
          old_state, tracking_id)

\* The part of a turn from the slot write of step 2 to step 5.
TurnTail(ctx, old_state, check, ticket_id) ==
    Step5(Step4(Step3(Step2Write(ctx, old_state, check), old_state), old_state),
          old_state, ticket_id)

\* _handle_special_intents and _handle_booking_actions of one turn.
HandleTurn(bk, ho, cv, old_state, ex, tracking_id, ticket_id) ==
    LET head == TurnHead(bk, ho, cv, old_state, ex, tracking_id)
    IN  TurnTail(head, old_state, Step2Check(head, old_state), ticket_id)

----------------------------------------------------------------------------
(* The state after construction: two started conversations, empty tables.  *)

NoEvent == [kind |-> "none"]

Weekdays == 0 .. 6

\* The dates the slot engine is asked about: the date of the requests and
\* the following one.
Dates == 0 .. 1

HoursRow(is_closed, open_time, close_time) ==
    Some([ is_closed |-> is_closed, open_time |-> open_time, close_time |-> close_time ])

\* The business of the conversations: open 09:00 to 18:00 every day, no
\* availability exception.
OpenCalendar ==
    [ hours    |-> [wd \in Weekdays |-> HoursRow(FALSE, Some(9), Some(18))],
      closures |-> [d \in Dates |-> 0] ]

InitConversations ==
    [c \in Convs |-> [status |-> "STARTED", resolution_type |-> None, outcome |-> None]]

Init ==
    /\ bookings = <<>>
    /\ handoffs = <<>>
    /\ conversations = InitConversations
    /\ messages = [c \in Convs |-> <<>>]
    /\ inflight = [c \in Convs |-> None]
    /\ calendar = OpenCalendar
    /\ last = NoEvent

----------------------------------------------------------------------------
(* Spec: turns processed one at a time (each send_message runs to          *)
(* completion), over both conversations, and the end of the voice call.    *)

\* The intents of the turns: the ones the service layer acts on, and two of
\* those it only answers ("cancel_booking" asks for a confirmation).
TurnIntents ==
    {"confirm_booking", "complete_booking", "confirm_cancel", "reschedule",
     "escalate", "cancel_booking", "other"}

\* The intents under which the service layer reads the booking code of the
\* message.
CodeIntents == {"confirm_cancel", "reschedule"}

\* What the oracle may extract from one message. A time without a date is
\* ignored by parse_message_node, and a booking code is acted on only under
\* the intents above, so those combinations are left out.
Extractions ==
    { ex \in [ intent               : TurnIntents,
               service_mentioned    : Opt(ServiceNames),
               date_mentioned       : BOOLEAN,
               time_mentioned       : Opt(Times),
               name                 : Opt(Names),
               phone                : Opt(Phones),
               email                : Opt(Emails),
               wants_human          : BOOLEAN,
               booking_id_mentioned : Opt(TrackingCodes) ] :
        /\ IsSome(ex.time_mentioned) => ex.date_mentioned
        /\ IsSome(ex.booking_id_mentioned) => ex.intent \in CodeIntents }

RECURSIVE CountUser(_)
CountUser(ms) ==
    IF ms = <<>> THEN 0
    ELSE (IF Head(ms) = "user" THEN 1 ELSE 0) + CountUser(Tail(ms))

RECURSIVE TurnsOf(_)
TurnsOf(S) ==
    IF S = {} THEN 0
    ELSE LET c == CHOOSE c \in S : TRUE
         IN  CountUser(messages[c]) + (IF inflight[c] = None THEN 0 ELSE 1)
             + TurnsOf(S \ {c})

\* The codes the collision-retry loops can end with: the unused ones.
FreshTrackingCodes(bk) ==
    { code \in TrackingCodes : \A i \in DOMAIN bk : bk[i].public_tracking_id # code }

FreshTicketCodes(ho) ==
    { code \in TicketCodes : \A i \in DOMAIN ho : ho[i].public_ticket_id # code }

\* The codes are opaque random strings and the messages may mention any of
\* them, so which unused code a draw yields makes no difference to the turns
\* that follow: turns run one at a time take one representative draw.
FirstOf(codes, all) ==
    IF codes = {} THEN {CHOOSE code \in all : TRUE} ELSE {CHOOSE code \in codes : TRUE}

TrackingDraws(bk) == FirstOf(FreshTrackingCodes(bk), TrackingCodes)

TicketDraws(ho) == FirstOf(FreshTicketCodes(ho), TicketCodes)

\* What the turn of conversation c did, for the claims about single turns.
TurnEvent(c, old_state, ctx) ==
    [ kind             |-> "turn",
      conv             |-> c,
      raised           |-> ctx.raised,
      needs_escalation |-> ctx.state.needs_escalation,
      had_handoff      |-> IsSome(old_state.handoff_id),
      contact          |->
          << OrElse(ctx.state.customer_name, old_state.customer_name),
             OrElse(ctx.state.customer_phone, old_state.customer_phone),
             OrElse(ctx.state.customer_email, old_state.customer_email) >>,
      handoff_created  |-> Len(ctx.handoffs) > Len(handoffs),
      confirmed        |-> ctx.confirmed ]

InstantOf(slot_string) ==
    IF IsSome(slot_string) THEN Some(fromisoformat(Val(slot_string))) ELSE None

\* More of what the turn did, for the claims about what one turn asked for:
\* the routed intent, the tracking code the message mentioned, the service
\* and slot in the graph's result, and the
\* slot and the slot_unavailable flag send_message reports, and what the
\* availability check of step 2 said.
TurnDetail(state, ctx, check) ==
    [ intent              |-> ctx.state.parsed_intent,
      mentioned           |-> state.mentioned_booking_id,
      service             |-> state.selected_service_id,
      requested_slot      |-> InstantOf(state.selected_slot_start),
      selected_slot_start |-> InstantOf(ctx.state.selected_slot_start),
      slot_unavailable    |-> ctx.state.slot_unavailable,
      slot_check          |-> check ]

\* The tables and the history after the turn: an exception leaves what was
\* committed before it (the user message with it), a completed turn adds the
\* assistant reply and updates the conversation.
Persist(c, ctx) ==
    /\ bookings' = ctx.bookings
    /\ handoffs' = ctx.handoffs
    /\ IF ctx.raised
       THEN /\ conversations' = ctx.conversations
            /\ messages' = IF ctx.committed
                           THEN [messages EXCEPT ![c] = Append(@, "user")]
                           ELSE messages
       ELSE /\ conversations' =
                 [ctx.conversations EXCEPT ![c] = UpdateConversation(@, ctx.state)]
            /\ messages' = [messages EXCEPT ![c] = Append(Append(@, "user"), "assistant")]

\* One send_message call on conversation c, run to completion, with the
\* message's extraction drawn from `inputs` and at most `bound` turns;
\* `detailed` says whether the event kept of the turn carries TurnDetail and
\* the kind of the oracle's output (a JSON object with the expected keys, but
\* in SpecOracle), the channel, the bookings the turn's cancel step
\* cancelled, the dictionary returned and, on the voice
\* channel, the extraction the oracle gave.
\* How many bookings the conversations of the model have made; the bound on
\* creation counts these and not the rows of earlier conversations.
BookingsOfConvs ==
    Cardinality({ i \in DOMAIN bookings : bookings[i].conversation_id \in Convs })

\* The bookings the cancel of _handle_special_intents took to CANCELLED.
CancelledBy(after_special) ==
    { i \in DOMAIN bookings :
        bookings[i].status # "CANCELLED" /\ after_special[i].status = "CANCELLED" }

TurnBody(c, old_state, ex, detailed, oracle, channel) ==
    \E state \in {booking_graph(old_state, ex)} :
      /\ CreatesBooking(state, old_state) =>
             BookingsOfConvs < MaxBookings /\ FreshTrackingCodes(bookings) # {}
      /\ CreatesHandoff(state, old_state) => FreshTicketCodes(handoffs) # {}
      /\ \E tracking_id \in TrackingDraws(bookings),
            ticket_id \in TicketDraws(handoffs) :
            \E ctx \in {HandleTurn(bookings, handoffs, conversations, old_state,
                                   ex, tracking_id, ticket_id)} :
                /\ Persist(c, ctx)
                /\ last' = IF detailed
                           THEN TurnEvent(c, old_state, ctx)
                                @@ TurnDetail(state, ctx,
                                       Step2Check(TurnHead(bookings, handoffs,
                                           conversations, old_state, ex,
                                           tracking_id), old_state))
                                @@ [ oracle  |-> oracle,
                                     channel |-> channel,
                                     cancelled |->
                                         CancelledBy(handle_special_intents(
                                             NewCtx(bookings, handoffs,
                                                    conversations, state),
                                             old_state).bookings),
                                     result  |->
                                         IF channel = "voice"
                                         THEN voice_send_message(
                                                  send_message_result(c, ctx, old_state))
                                         ELSE send_message_result(c, ctx, old_state) ]
                                @@ (IF channel = "voice" THEN [heard |-> ex] ELSE <<>>)
                           ELSE TurnEvent(c, old_state, ctx)

TurnOn(c, inputs, bound, detailed) ==
    /\ TurnsOf(Convs) < bound
    /\ inflight[c] = None
    /\ \E old_state \in {BuildState(bookings, handoffs, c)}, ex \in inputs :
         TurnBody(c, old_state, ex, detailed, "object", "chat")
    /\ UNCHANGED <<inflight, calendar>>

SendMessage(c) == TurnOn(c, Extractions, MaxTurns, FALSE)

\* CallSessionService.end_call, on the conversation of the call.
end_call(cv, conversation_id, resolution_type) ==
    [cv EXCEPT ![conversation_id].status = "RESOLVED",
               ![conversation_id].resolution_type = resolution_type]

ResolutionTypes == {"AI_RESOLVED"}

EndCall(c, resolution_type) ==
    /\ inflight[c] = None
    /\ conversations' = end_call(conversations, c, resolution_type)
    /\ last' = [kind |-> "end_call", conv |-> c]
    /\ UNCHANGED <<bookings, handoffs, messages, inflight, calendar>>

Next ==
    \/ \E c \in Convs : SendMessage(c)
    \/ \E c \in VoiceConvs, rt \in Opt(ResolutionTypes) : EndCall(c, rt)

Spec == Init /\ [][Next]_vars

----------------------------------------------------------------------------
(* SpecLong: longer sequences of turns, processed one at a time, of        *)
(* messages that do not ask for a human and give the whole contact or      *)
(* none of it; the event kept of a turn carries its detail.                *)

MaxLongTurns == 3

LongExtractions ==
    { ex \in Extractions :
        /\ ex.intent # "escalate"
        /\ ~ex.wants_human
        /\ IsSome(ex.name) = IsSome(ex.phone)
        /\ IsSome(ex.name) = IsSome(ex.email) }

LongTurn(c) == TurnOn(c, LongExtractions, MaxLongTurns, TRUE)

NextLong == \E c \in Convs : LongTurn(c)

SpecLong == Init /\ [][NextLong]_vars

----------------------------------------------------------------------------
(* SpecRace: turns of the two conversations that overlap. Every await of a *)
(* turn is a point where the other request can run; the one that matters   *)
(* is between the availability check of step 2 and the slot write, so a    *)
(* turn is two steps: TurnBegin up to the check, TurnFinish from the write *)
(* on. Each step reads the tables as committed at its time. The messages   *)
(* of these turns ask for a slot of the one service.                       *)

RaceExtractions ==
    { ex \in Extractions :
        /\ ex.intent \in {"other", "complete_booking"}
        /\ IsSome(ex.service_mentioned)
        /\ ex.date_mentioned
        /\ ~ex.wants_human
        /\ IsSome(ex.name) = IsSome(ex.phone)
        /\ IsSome(ex.name) = IsSome(ex.email) }

\* What a turn carries across the await: the state before the graph, the
\* result state, whether the session has committed, the check's answer.
Suspended(old_state, head, check) ==
    Some([ old_state |-> old_state, state |-> head.state,
           committed |-> head.committed, check |-> check ])

TurnBegin(c) ==
    /\ TurnsOf(Convs) < MaxTurns
    /\ inflight[c] = None
    /\ \E old_state \in {BuildState(bookings, handoffs, c)}, ex \in RaceExtractions :
         \E state \in {booking_graph(old_state, ex)} :
           /\ CreatesBooking(state, old_state) =>
                  BookingsOfConvs < MaxBookings /\ FreshTrackingCodes(bookings) # {}
           /\ \E tracking_id \in TrackingDraws(bookings) :
                \E head \in {TurnHead(bookings, handoffs, conversations, old_state,
                                      ex, tracking_id)} :
                    /\ bookings' = head.bookings
                    /\ inflight' = [inflight EXCEPT ![c] =
                           Suspended(old_state, head, Step2Check(head, old_state))]
    /\ UNCHANGED <<handoffs, conversations, messages, calendar, last>>

TurnFinish(c) ==
    /\ inflight[c] # None
    /\ LET t == Val(inflight[c])
           resumed == [NewCtx(bookings, handoffs, conversations, t.state)
                          EXCEPT !.committed = t.committed]
       IN  \E ticket_id \in TicketDraws(handoffs) :
             \E ctx \in {TurnTail(resumed, t.old_state, t.check, ticket_id)} :
                /\ Persist(c, ctx)
                /\ last' = TurnEvent(c, t.old_state, ctx)
    /\ inflight' = [inflight EXCEPT ![c] = None]
    /\ UNCHANGED calendar

NextRace ==
    \/ \E c \in Convs : TurnBegin(c)
    \/ \E c \in Convs : TurnFinish(c)

SpecRace == Init /\ [][NextRace]_vars

----------------------------------------------------------------------------
(* SpecBooking: the BookingService operations called directly on a table   *)
(* holding one booking in any status of the enumeration, with or without a *)
(* slot and with any subset of the contact fields.                         *)

StoredBookings ==
    { [ conversation_id    |-> "conv1",
        service_id         |-> "svc1",
        public_tracking_id |-> "BK-A1B2C3",
        status             |-> st,
        slot_start         |-> sl,
        slot_end           |-> IF sl = None THEN None ELSE Some(Val(sl) + 1),
        customer_name      |-> n,
        customer_phone     |-> p,
        customer_email     |-> e ] :
      st \in BookingStatuses, sl \in Opt(Times), n \in Opt(Names),
      p \in Opt(Phones), e \in Opt(Emails) }

InitBooking ==
    /\ bookings \in { <<b>> : b \in StoredBookings }
    /\ handoffs = <<>>
    /\ conversations = InitConversations
    /\ messages = [c \in Convs |-> <<>>]
    /\ inflight = [c \in Convs |-> None]
    /\ calendar = OpenCalendar
    /\ last = NoEvent

\* The previous operation, kept to state what a second call does.
PrevOp == IF last.kind = "op" THEN [op |-> last.op, row |-> last.row, ok |-> last.ok]
          ELSE [op |-> "none", row |-> 0, ok |-> FALSE]

\* The call `op` on row `row` (0: no such booking) with result `res`.
OpEvent(op, row, res) ==
    [ kind |-> "op", op |-> op, row |-> row, ok |-> res.ok,
      before |-> IF row \in DOMAIN bookings THEN Some(bookings[row]) ELSE None,
      prev |-> PrevOp ]

RowOf(tracking_id) ==
    LET rows == FindByTrackingId(bookings, tracking_id)
    IN  IF rows = {} THEN 0 ELSE CHOOSE i \in rows : TRUE

CallOp(op, row, res) ==
    /\ bookings' = res.bookings
    /\ last' = OpEvent(op, IF row \in DOMAIN bookings THEN row ELSE 0, res)
    /\ UNCHANGED <<handoffs, conversations, messages, inflight, calendar>>

\* A call that takes a tracking code as the caller typed it.
CallByCode(op, code, row, res) ==
    /\ bookings' = res.bookings
    /\ last' = OpEvent(op, row, res) @@ [code |-> code]
    /\ UNCHANGED <<handoffs, conversations, messages, inflight, calendar>>

\* The codes callers type: the stored ones and other-case spellings of the
\* first.
TypedCodes == TrackingCodes \cup {"bk-a1b2c3", "Bk-a1B2c3"}

\* str.upper() on the typed codes.
upper(code) == IF code \in {"bk-a1b2c3", "Bk-a1B2c3"} THEN "BK-A1B2C3" ELSE code

\* A read: the table as it is, ok when a booking was returned.
Found(booking) == [ ok |-> IsSome(booking), bookings |-> bookings ]

\* BookingService.get_booking_by_tracking_id, the read of the chat
\* check_status path.
GetBookingByTrackingId(code) ==
    CallByCode("get_booking_by_tracking_id", code, RowOf(code),
               Found(get_booking_by_tracking_id(bookings, code)))

\* GET /bookings/{tracking_id} of the public router, which compares the
\* stored code with tracking_id.upper().
PublicGetBookingByTrackingId(code) ==
    CallByCode("public_get_booking_by_tracking_id", code, RowOf(upper(code)),
               Found(get_booking_by_tracking_id(bookings, upper(code))))

ConfirmBooking(id) ==
    CallOp("confirm_booking", id, confirm_booking(bookings, id))

CancelBooking(id) ==
    CallOp("cancel_booking", id, cancel_booking(bookings, id))

CancelBookingByTrackingId(code) ==
    CallByCode("cancel_booking_by_tracking_id", code, RowOf(code),
               cancel_booking_by_tracking_id(bookings, code))

RescheduleBooking(id, t) ==
    CallOp("reschedule_booking", id, reschedule_booking(bookings, id, t, t + 1))

RescheduleBookingByTrackingId(code, t) ==
    CallByCode("reschedule_booking_by_tracking_id", code, RowOf(code),
               reschedule_booking_by_tracking_id(bookings, code, t, t + 1))

NextBooking ==
    \/ \E id \in 1..MaxBookings : ConfirmBooking(id)
    \/ \E id \in 1..MaxBookings : CancelBooking(id)
    \/ \E code \in TypedCodes : CancelBookingByTrackingId(code)
    \/ \E id \in 1..MaxBookings, t \in Times \cup {Noon} : RescheduleBooking(id, t)
    \/ \E code \in TypedCodes, t \in Times \cup {Noon} :
          RescheduleBookingByTrackingId(code, t)
    \/ \E code \in TypedCodes : GetBookingByTrackingId(code)
    \/ \E code \in TypedCodes : PublicGetBookingByTrackingId(code)

SpecBooking == InitBooking /\ [][NextBooking]_vars

----------------------------------------------------------------------------
(* SpecCreate: create_booking calls of the two conversations that overlap. *)
(* The call draws a code and repeats while a row with that code is found   *)
(* (CreateDraw ends the loop), then adds the row and commits               *)
(* (CreateInsert). Another call can run between the two.                   *)

\* create_booking calls begun in one behaviour, ended or not.
MaxCreates == 3

\* The codes the draws of these calls can yield.
CreateCodes == TrackingCodes \cup {"BK-0789AB"}

\* The collision test of the retry loop: no row holds the code.
tracking_id_unused(bk, tracking_id) == FindByTrackingId(bk, tracking_id) = {}

\* A plausible slip: the column is declared without unique=True.
insert_booking_not_unique(bk, row) == Return(Append(bk, row))

\* db.add(booking); db.commit() against the unique index of
\* public_tracking_id: the commit of a duplicate code raises IntegrityError.
insert_booking(bk, row) ==
    IF ~tracking_id_unused(bk, row.public_tracking_id) THEN Raise(bk)
    ELSE Return(Append(bk, row))

CreateDraw(c, tracking_id) ==
    /\ inflight[c] = None
    /\ Len(bookings) + Cardinality({d \in Convs : inflight[d] # None}) < MaxCreates
    /\ tracking_id_unused(bookings, tracking_id)
    /\ inflight' = [inflight EXCEPT ![c] = Some(tracking_id)]
    /\ last' = [kind |-> "draw", conv |-> c, code |-> tracking_id]
    /\ UNCHANGED <<bookings, handoffs, conversations, messages, calendar>>

CreateInsert(c) ==
    /\ inflight[c] # None
    /\ \E svc \in ServiceIds :
         \E res \in {insert_booking(bookings, NewBooking(svc, c, Val(inflight[c])))} :
            /\ bookings' = res.bookings
            /\ last' = [kind |-> "insert", conv |-> c, code |-> Val(inflight[c]),
                        ok |-> res.ok,
                        overlapped |-> \E d \in Convs \ {c} : inflight[d] # None]
    /\ inflight' = [inflight EXCEPT ![c] = None]
    /\ UNCHANGED <<handoffs, conversations, messages, calendar>>

NextCreate ==
    \/ \E c \in Convs, code \in CreateCodes : CreateDraw(c, code)
    \/ \E c \in Convs : CreateInsert(c)

SpecCreate == Init /\ [][NextCreate]_vars

----------------------------------------------------------------------------
(* SpecOracle: turns whose oracle output need not be a JSON object with    *)
(* the expected keys.                                                      *)

MaxOracleTurns == 2

OracleExtractions ==
    { ex \in LongExtractions :
        /\ ex.intent \in {"other", "confirm_booking", "complete_booking"}
        /\ ex.booking_id_mentioned = None }

OracleContents ==
    { [kind |-> "object", ex |-> ex] : ex \in OracleExtractions }
    \cup { [kind |-> "null_contact", ex |-> ex] :
             ex \in { e \in OracleExtractions : e.name = None } }
    \cup { [kind |-> k, ex |-> NoKeys] : k \in {"not_object", "not_json", "none", "call_failed"} }

\* One send_message call. An exception of the graph ends the call before
\* anything is committed: the pending user message is lost with the session.
OracleTurn(c) ==
    /\ TurnsOf(Convs) < MaxOracleTurns
    /\ inflight[c] = None
    /\ \E old_state \in {BuildState(bookings, handoffs, c)}, content \in OracleContents :
         IF parse_raises(content)
         THEN /\ last' = [ kind |-> "turn", conv |-> c, raised |-> TRUE,
                           oracle |-> content.kind ]
              /\ UNCHANGED <<bookings, handoffs, conversations, messages>>
         ELSE TurnBody(c, old_state, extract_json_from_llm(content).extracted.ex,
                       TRUE, content.kind, "chat")
    /\ UNCHANGED <<inflight, calendar>>

NextOracle == \E c \in Convs : OracleTurn(c)

SpecOracle == Init /\ [][NextOracle]_vars

----------------------------------------------------------------------------
(* SpecVoice: turns through ChatService.send_message and, on the           *)
(* conversation of the call, through VoiceChatService.send_message.        *)

MaxVoiceTurns == 2

VoiceExtractions ==
    { ex \in Extractions :
        /\ ex.intent \in {"complete_booking", "confirm_cancel", "escalate", "other"}
        /\ IsSome(ex.name) = IsSome(ex.phone)
        /\ IsSome(ex.name) = IsSome(ex.email)
        /\ ex.booking_id_mentioned = None }

ChatTurn(c) == TurnOn(c, VoiceExtractions, MaxVoiceTurns, TRUE)

VoiceTurn(c) ==
    /\ TurnsOf(Convs) < MaxVoiceTurns
    /\ inflight[c] = None
    /\ \E old_state \in {BuildState(bookings, handoffs, c)}, ex \in VoiceExtractions :
         TurnBody(c, old_state, ex, TRUE, "object", "voice")
    /\ UNCHANGED <<inflight, calendar>>

NextVoice ==
    \/ \E c \in Convs : ChatTurn(c)
    \/ \E c \in VoiceConvs : VoiceTurn(c)

SpecVoice == Init /\ [][NextVoice]_vars

----------------------------------------------------------------------------
(* SpecRoute: the router applied to the states parse_message_node leaves   *)
(* for the first message of a conversation, over every intent of the       *)
(* enumeration and one the enumeration does not have.                      *)

UnrecognisedIntent == "book_table"

RouteExtractions ==
    { ex \in [ intent               : Intents \cup {UnrecognisedIntent},
               service_mentioned    : Opt(ServiceNames),
               date_mentioned       : BOOLEAN,
               time_mentioned       : {None},
               name                 : Opt(Names),
               phone                : {None},
               email                : {None},
               wants_human          : BOOLEAN,
               booking_id_mentioned : {None} ] : TRUE }

ParsedStates ==
    { parse_message_node(BuildState(<<>>, <<>>, "conv1"), ex) : ex \in RouteExtractions }

InitRoute ==
    /\ bookings = <<>>
    /\ handoffs = <<>>
    /\ conversations = InitConversations
    /\ messages = [c \in Convs |-> <<>>]
    /\ inflight = [c \in Convs |-> None]
    /\ calendar = OpenCalendar
    /\ \E state \in ParsedStates : last = [kind |-> "parsed", state |-> state]

\* The conditional edge after parse_message_node.
Route ==
    /\ last.kind = "parsed"
    /\ last' = [ kind |-> "routed", state |-> last.state,
                 node |-> route_after_parse(last.state) ]
    /\ UNCHANGED <<bookings, handoffs, conversations, messages, inflight, calendar>>

\* The handler runs and the graph ends.
RunHandler ==
    /\ last.kind = "routed"
    /\ last.node \in HandlerNodes
    /\ last' = [ kind |-> "ended", state |-> RunNode(last.node, last.state),
                 node |-> last.node ]
    /\ UNCHANGED <<bookings, handoffs, conversations, messages, inflight, calendar>>

NextRoute == Route \/ RunHandler

SpecRoute == InitRoute /\ [][NextRoute]_vars

----------------------------------------------------------------------------
(* SpecSlots: the slot engine and the public slots endpoint asked about    *)
(* service svc1, on a table of up to two bookings with a slot and a        *)
(* business calendar drawn from the sets below.                            *)

\* svc2 is a second service, which no conversation of the model selects.
StoredServices == ServiceIds \cup {"svc2"}

StoredStarts == {At(0, 10), At(0, 11), At(1, 9)}

StoredSlotStatuses == {"CONFIRMED", "CANCELLED", "CANCELED", "FAILED", "EXPIRED"}

\* The stored window at 10:00 lasts two hours, the others one hour.
StoredLength(t) == IF t = At(0, 10) THEN 2 ELSE 1

SlotBookings ==
    { [ NewBooking(svc, "conv1", "BK-A1B2C3") EXCEPT
          !.status = st, !.slot_start = Some(t), !.slot_end = Some(t + StoredLength(t)) ] :
      svc \in StoredServices, st \in StoredSlotStatuses, t \in StoredStarts }

SlotTables ==
    {<<>>} \cup { <<b>> : b \in SlotBookings }
           \cup { <<b1, [b2 EXCEPT !.conversation_id = "conv2",
                                   !.public_tracking_id = "BK-D4E5F6"]>> :
                  b1 \in SlotBookings, b2 \in SlotBookings }

\* The rows of the weekday of date 0: none, closed, 09:00-18:00, 09:00-12:00.
HoursRows ==
    { None, HoursRow(TRUE, Some(9), Some(18)), HoursRow(FALSE, Some(9), Some(18)),
      HoursRow(FALSE, Some(9), Some(12)) }

Calendars ==
    { [ hours    |-> [wd \in Weekdays |-> IF wd = 0 THEN h0 ELSE IF wd = 1 THEN h1 ELSE None],
        closures |-> [d \in Dates |-> IF d = 0 THEN n ELSE 0] ] :
      h0 \in HoursRows, h1 \in {None, HoursRow(FALSE, Some(9), Some(18))}, n \in 0 .. 2 }

InitSlots ==
    /\ bookings \in SlotTables
    /\ calendar \in Calendars
    /\ handoffs = <<>>
    /\ conversations = InitConversations
    /\ messages = [c \in Convs |-> <<>>]
    /\ inflight = [c \in Convs |-> None]
    /\ last = NoEvent

\* A call changes no table; the event keeps its arguments and its result.
SlotCall(event) ==
    /\ last.kind = "none"
    /\ last' = event
    /\ UNCHANGED <<bookings, handoffs, conversations, messages, inflight, calendar>>

ListAvailable(service_id, target_date, duration) ==
    SlotCall([ kind |-> "list", service_id |-> service_id, date |-> target_date,
               duration |-> duration,
               result |-> get_available_slots(bookings, calendar, service_id,
                                              target_date, duration) ])

CheckSlotAvailable(service_id, slot_start) ==
    SlotCall([ kind |-> "check", service_id |-> service_id, slot_start |-> slot_start,
               result |-> check_slot_available(bookings, service_id, slot_start) ])

ValidateAndReserveSlot(service_id, slot_start) ==
    SlotCall([ kind |-> "validate", service_id |-> service_id, slot_start |-> slot_start,
               result |-> validate_and_reserve_slot(bookings, calendar, service_id,
                                                    slot_start, slot_start + DefaultDuration) ])

PublicSlots(service_id, target_date) ==
    SlotCall([ kind |-> "public", service_id |-> service_id, date |-> target_date,
               result |-> public_get_available_slots(bookings, calendar, service_id,
                                                     target_date) ])

RequestStarts == {At(0, 10), At(0, 11)}

NextSlots ==
    \/ \E svc \in ServiceIds, d \in Dates, len \in 1 .. 2 : ListAvailable(svc, d, len)
    \/ \E svc \in ServiceIds, t \in RequestStarts : CheckSlotAvailable(svc, t)
    \/ \E svc \in ServiceIds, t \in RequestStarts : ValidateAndReserveSlot(svc, t)
    \/ \E svc \in ServiceIds, d \in Dates : PublicSlots(svc, d)

SpecSlots == InitSlots /\ [][NextSlots]_vars

----------------------------------------------------------------------------
(* Claims about the BookingService operations (SpecBooking).               *)

IsOp(ops) == last.kind = "op" /\ last.op \in ops /\ last.row # 0

LacksSlotOrContact(b) ==
    \/ b.slot_start = None
    \/ b.customer_name = None
    \/ b.customer_phone = None
    \/ b.customer_email = None

\* C3: confirm_booking applied to a booking that lacks a slot or any one of
\* name, phone, email fails (invalid transition) and leaves the booking's
\* status unchanged.
C3_ConfirmIncompleteFails ==
    (IsOp({"confirm_booking"}) /\ LacksSlotOrContact(Val(last.before)))
        => /\ ~last.ok
           /\ bookings[last.row].status = Val(last.before).status

CancelOps == {"cancel_booking", "cancel_booking_by_tracking_id"}

\* C4: cancelling a booking (by id or by tracking code) that is not yet
\* cancelled succeeds and sets its status to CANCELLED; cancelling a booking
\* that is already CANCELLED fails and leaves it CANCELLED; a read of the
\* booking after either call shows CANCELLED.
C4_CancelTwice ==
    IsOp(CancelOps) =>
        LET b == Val(last.before)
            now == Val(get_booking(bookings, last.row))
        IN  /\ b.status \notin {"CANCELLED", "CANCELED"}
                 => last.ok /\ now.status = "CANCELLED"
            /\ b.status = "CANCELLED"
                 => ~last.ok /\ now.status = "CANCELLED"
            /\ (last.prev.op \in CancelOps /\ last.prev.ok /\ last.prev.row = last.row)
                 => ~last.ok /\ now.status = "CANCELLED"

\* C4 witness: a second cancel, right after a successful cancel of the same
\* booking, has failed and the booking reads CANCELLED.
C4_Witness ==
    /\ IsOp(CancelOps)
    /\ last.prev.op \in CancelOps /\ last.prev.ok /\ last.prev.row = last.row
    /\ ~last.ok
    /\ Val(get_booking(bookings, last.row)).status = "CANCELLED"

RescheduleOps == {"reschedule_booking", "reschedule_booking_by_tracking_id"}

\* C5: rescheduling a booking whose status is terminal (CANCELLED, FAILED or
\* EXPIRED) fails and leaves the booking's status and slot unchanged.
C5_RescheduleTerminalFails ==
    (IsOp(RescheduleOps) /\ Val(last.before).status \in TerminalStatuses)
        => /\ ~last.ok
           /\ bookings[last.row].status = Val(last.before).status
           /\ bookings[last.row].slot_start = Val(last.before).slot_start

----------------------------------------------------------------------------
(* Claims about overlapping turns (SpecRace).                              *)

\* The pairs of bookings that hold the same slot of the same service while
\* neither is in a terminal status.
DoubleBooked ==
    { p \in (DOMAIN bookings) \X (DOMAIN bookings) :
        /\ p[1] < p[2]
        /\ bookings[p[1]].status \notin TerminalStatuses
        /\ bookings[p[2]].status \notin TerminalStatuses
        /\ bookings[p[1]].service_id = bookings[p[2]].service_id
        /\ IsSome(bookings[p[1]].slot_start)
        /\ bookings[p[1]].slot_start = bookings[p[2]].slot_start }

\* C1: while turns of two conversations that ask for the same slot of the
\* same service overlap, with the availability checks and the slot writes
\* interleaved in any order, no two bookings in a non-terminal status hold
\* the same service and the same slot_start.
C1_NoDoubleBooking == DoubleBooked = {}

----------------------------------------------------------------------------
(* Claims about turns processed one at a time (Spec).                      *)

IsTurn == last.kind = "turn" /\ ~last.raised

HandoffsOf(c) == { i \in DOMAIN handoffs : handoffs[i].conversation_id = c }

NoContact == <<None, None, None>>

\* C2: every booking whose status is CONFIRMED has a service, a slot_start
\* and all three contact fields (name, phone, email).
C2_ConfirmedIsComplete ==
    \A i \in DOMAIN bookings :
        bookings[i].status = "CONFIRMED" =>
            /\ bookings[i].service_id \in ServiceIds
            /\ IsSome(bookings[i].slot_start)
            /\ IsSome(bookings[i].customer_name)
            /\ IsSome(bookings[i].customer_phone)
            /\ IsSome(bookings[i].customer_email)

\* C6: at most one handoff exists for a conversation, however many of its
\* turns signal escalation.
C6_OneHandoffPerConversation ==
    \A c \in Convs : Cardinality(HandoffsOf(c)) <= 1

\* C6 witness: a turn that signalled escalation in a conversation that had a
\* handoff already has ended, and the conversation still has that one handoff.
C6_Witness ==
    /\ IsTurn
    /\ last.needs_escalation
    /\ last.had_handoff
    /\ Cardinality(HandoffsOf(last.conv)) = 1

C8_HandoffResolvesConversation ==
    (IsTurn /\ last.handoff_created)
        => /\ conversations[last.conv].status = "RESOLVED"
           /\ conversations[last.conv].resolution_type = Some("HUMAN_ESCALATED")

\* C8 witness: a turn has created a handoff and its conversation is
\* RESOLVED, HUMAN_ESCALATED.
C8_Witness ==
    /\ IsTurn /\ last.handoff_created
    /\ HandoffsOf(last.conv) # {}
    /\ conversations[last.conv].status = "RESOLVED"
    /\ conversations[last.conv].resolution_type = Some("HUMAN_ESCALATED")

\* C9: a conversation that is RESOLVED stays RESOLVED: no step changes its
\* status to another value.
C9_ResolvedStaysResolved ==
    [][\A c \in Convs : conversations[c].status = "RESOLVED"
                            => conversations'[c].status = "RESOLVED"]_vars

\* C10: at the end of a turn that has set the booking to CONFIRMED the
\* conversation's status is RESOLVED.
C10_ConfirmationResolvesConversation ==
    (IsTurn /\ last.confirmed) => conversations[last.conv].status = "RESOLVED"

----------------------------------------------------------------------------
(* Claims about overlapping create_booking calls (SpecCreate).             *)

\* C11: no two bookings share a public tracking code, also when two
\* create_booking calls of different conversations overlap and draw the
\* same code.
C11_TrackingCodesUnique ==
    \A i, j \in DOMAIN bookings :
        bookings[i].public_tracking_id = bookings[j].public_tracking_id => i = j

\* C11 witness: an insert whose code the other conversation's call had
\* drawn too and inserted first has failed, and the code is held by one row.
C11_Witness ==
    /\ last.kind = "insert" /\ ~last.ok
    /\ Cardinality(FindByTrackingId(bookings, last.code)) = 1
    /\ \E i \in DOMAIN bookings :
          /\ bookings[i].public_tracking_id = last.code
          /\ bookings[i].conversation_id # last.conv

----------------------------------------------------------------------------
(* Claims about longer sequences of turns (SpecLong).                      *)

\* The bookings of conversation c in a status that is not terminal.
LiveBookingsOf(c) ==
    { i \in DOMAIN bookings :
        /\ bookings[i].conversation_id = c
        /\ bookings[i].status \notin TerminalStatuses }

\* C12: each conversation owns at most one booking whose status is not
\* CANCELLED, FAILED or EXPIRED.
C12_OneLiveBookingPerConversation ==
    \A c \in Convs : Cardinality(LiveBookingsOf(c)) <= 1

\* C12 witness: a conversation whose booking was cancelled has selected a
\* service again and owns the cancelled booking and one new booking.
C12_Witness ==
    \E c \in Convs :
        /\ \E i \in DOMAIN bookings :
              bookings[i].conversation_id = c /\ bookings[i].status = "CANCELLED"
        /\ Cardinality(LiveBookingsOf(c)) = 1

\* The bookings of conversation c in the table bk.
BookingsOf(bk, c) == { i \in DOMAIN bk : bk[i].conversation_id = c }

FullContact(contact) == IsSome(contact[1]) /\ IsSome(contact[2]) /\ IsSome(contact[3])

\* The step is a turn of conversation c, which had no booking, whose message
\* resolved a service, a slot that was available, and the whole contact.
CompleteFirstTurn(c) ==
    /\ last'.kind = "turn" /\ last'.conv = c /\ ~last'.raised
    /\ BookingsOf(bookings, c) = {}
    /\ IsSome(last'.service)
    /\ IsSome(last'.requested_slot)
    /\ FullContact(last'.contact)
    /\ check_slot_available(bookings, Val(last'.service), Val(last'.requested_slot)) = "free"

\* After the step conversation c has exactly one booking, with the service
\* and the contact of the turn, in the given status and slot.
OneBookingAfter(c, status, slot_start) ==
    /\ Cardinality(BookingsOf(bookings', c)) = 1
    /\ \A i \in BookingsOf(bookings', c) :
          /\ bookings'[i].status = status
          /\ Some(bookings'[i].service_id) = last'.service
          /\ bookings'[i].slot_start = slot_start
          /\ << bookings'[i].customer_name, bookings'[i].customer_phone,
                bookings'[i].customer_email >> = last'.contact

\* C13 as stated: for a conversation with no prior booking, one turn that
\* resolves a service, an available slot and the three contact fields ends
\* with exactly one booking of the conversation, CONFIRMED, holding that
\* service, slot and contact, whatever the routed intent.
C13_CompleteTurnConfirms ==
    [][\A c \in Convs :
          CompleteFirstTurn(c) => OneBookingAfter(c, "CONFIRMED", last'.requested_slot)]_vars

\* C13 amended: the same, for every routed intent other than reschedule;
\* under the intent reschedule the slot is not written and the one booking
\* ends in CONTACT_COLLECTED without a slot.
C13_CompleteTurnConfirmsUnlessReschedule ==
    [][\A c \in Convs :
          CompleteFirstTurn(c) =>
              IF last'.intent = "reschedule"
              THEN OneBookingAfter(c, "CONTACT_COLLECTED", None)
              ELSE OneBookingAfter(c, "CONFIRMED", last'.requested_slot)]_vars

\* C13 witness: a turn routed as "other" that gave a service, a slot and the
\* whole contact has ended, and the conversation has one booking, CONFIRMED,
\* with that slot.
C13_Witness ==
    /\ IsTurn /\ last.intent = "other"
    /\ IsSome(last.service) /\ IsSome(last.requested_slot) /\ FullContact(last.contact)
    /\ Cardinality(BookingsOf(bookings, last.conv)) = 1
    /\ \A i \in BookingsOf(bookings, last.conv) :
          /\ bookings[i].status = "CONFIRMED"
          /\ bookings[i].slot_start = last.requested_slot

\* The turn just taken on conversation c asked step 2 for a slot and the
\* availability check found it held.
UnavailableTurn(c) ==
    /\ last'.kind = "turn"
    /\ last'.conv = c
    /\ last'.slot_check = "taken"

\* The booking the turn on c started with, if any.
BookingBefore(c) == get_booking_by_conversation(bookings, c)

SlotKept(i) ==
    /\ bookings'[i].slot_start = bookings[i].slot_start
    /\ bookings'[i].slot_end = bookings[i].slot_end

ReportsUnavailable == last'.slot_unavailable /\ last'.selected_slot_start = None

\* C15 as stated: a turn that requests an unavailable slot leaves the
\* slot_start, slot_end and status of the conversation's booking as they
\* were, reports slot_unavailable=true and reports no selected slot.
C15_UnavailableSlotLeavesBooking ==
    [][\A c \in Convs :
          UnavailableTurn(c) =>
              /\ IsSome(BookingBefore(c)) =>
                    /\ SlotKept(Val(BookingBefore(c)).booking_id)
                    /\ bookings'[Val(BookingBefore(c)).booking_id].status =
                           Val(BookingBefore(c)).status
              /\ ReportsUnavailable]_vars

\* C15, amended: such a turn leaves the slot_start and slot_end of every
\* booking of the conversation as they were (a booking the turn creates has
\* none), reports slot_unavailable=true and no selected slot; the status of
\* the conversation's booking is as before or the one the turn's cancel,
\* contact or confirm step wrote.
C15_UnavailableSlotKeepsStoredSlot ==
    [][\A c \in Convs :
          UnavailableTurn(c) =>
              /\ \A i \in DOMAIN bookings :
                    bookings[i].conversation_id = c => SlotKept(i)
              /\ \A i \in DOMAIN bookings' \ DOMAIN bookings :
                    bookings'[i].slot_start = None /\ bookings'[i].slot_end = None
              /\ IsSome(BookingBefore(c)) =>
                    bookings'[Val(BookingBefore(c)).booking_id].status \in
                        {Val(BookingBefore(c)).status, "CANCELLED", "CONTACT_COLLECTED",
                         "CONFIRMED"}
              /\ ReportsUnavailable]_vars

\* A turn asked for 10:00, held by the other conversation, while its own
\* booking holds 12:00, and keeps 12:00.
C15_Witness ==
    /\ last.kind = "turn"
    /\ last.slot_check = "taken"
    /\ last.slot_unavailable
    /\ last.requested_slot = Some(10)
    /\ \E i \in DOMAIN bookings :
          /\ bookings[i].conversation_id = last.conv
          /\ bookings[i].slot_start = Some(Noon)
          /\ bookings[i].slot_end = Some(Noon + 1)

----------------------------------------------------------------------------
(* Claims about the slot engine (SpecSlots).                               *)

\* A window of the business day of its date, of the default length, that no
\* counted booking of the service holds.
IsAvailableWindow(bk, cal, service_id, t) ==
    LET row == cal.hours[Weekday(DateOf(t))]
    IN  /\ IsSome(row)
        /\ ~Val(row).is_closed
        /\ cal.closures[DateOf(t)] = 0
        /\ At(DateOf(t), Val(Val(row).open_time)) <= t
        /\ t + DefaultDuration <= At(DateOf(t), Val(Val(row).close_time))
        /\ SlotHolders(bk, service_id, t) = {}

AvailableOn(bk, cal, service_id, date) ==
    { t \in At(date, 0) .. At(date, 23) : IsAvailableWindow(bk, cal, service_id, t) }

\* The alternatives are at most 5 available slots other than the requested
\* one, nearest first, with slots of the following date only when the
\* requested date has fewer than 5.
RankedAlternatives(alt, bk, cal, service_id, requested_slot) ==
    /\ Len(alt) <= 5
    /\ \A k \in DOMAIN alt :
          IsAvailableWindow(bk, cal, service_id, alt[k]) /\ alt[k] # requested_slot
    /\ \A k \in 1 .. Len(alt) - 1 :
          time_distance(alt[k], requested_slot) <= time_distance(alt[k + 1], requested_slot)
    /\ (\E k \in DOMAIN alt : DateOf(alt[k]) # DateOf(requested_slot)) =>
          Cardinality(AvailableOn(bk, cal, service_id, DateOf(requested_slot))) < 5

\* C14: when the requested (service, start) is held by a booking the
\* availability query counts, validate_and_reserve_slot returns
\* available=false with at most 5 alternatives, each an available slot other
\* than the requested one, ordered by distance to the requested start, the
\* following date used only when the requested date has fewer than 5.
C14_UnavailableSlotAlternatives ==
    (last.kind = "validate"
       /\ SlotHolders(bookings, last.service_id, last.slot_start) # {}) =>
        /\ ~last.result.raised
        /\ ~last.result.available
        /\ RankedAlternatives(last.result.alternatives, bookings, calendar,
                              last.service_id, last.slot_start)

\* The date has an operating-hours row that is not closed and no CLOSED
\* exception.
OpenDay(cal, date) ==
    /\ IsSome(cal.hours[Weekday(date)])
    /\ ~Val(cal.hours[Weekday(date)]).is_closed
    /\ cal.closures[date] = 0

\* The starts from open-time on, one window length apart, whose window ends
\* at close-time or before.
WindowStarts(cal, date, duration) ==
    LET open == At(date, Val(Val(cal.hours[Weekday(date)]).open_time))
        close == At(date, Val(Val(cal.hours[Weekday(date)]).close_time))
    IN  { t \in open .. close : (t - open) % duration = 0 /\ t + duration <= close }

Held(bk, service_id, t) == SlotHolders(bk, service_id, t) # {}

\* C16: on an open day get_available_slots returns exactly the consecutive
\* windows from open-time to close-time whose start no counted booking of
\* the service holds, in order: 9 slots for 09:00-18:00 and 60-minute
\* windows, 8 without 10:00 once a booking holds 10:00.
C16_ListAvailableWindows ==
    (last.kind = "list" /\ OpenDay(calendar, last.date)) =>
        LET slots == last.result.slots
            starts == WindowStarts(calendar, last.date, last.duration)
            nine_to_six == /\ calendar.hours[Weekday(last.date)]
                                  = HoursRow(FALSE, Some(9), Some(18))
                           /\ last.duration = 1
        IN  /\ ~last.result.raised
            /\ { slots[k] : k \in DOMAIN slots } =
                   { t \in starts : ~Held(bookings, last.service_id, t) }
            /\ \A k \in 1 .. Len(slots) - 1 : slots[k] < slots[k + 1]
            /\ nine_to_six =>
                  /\ (\A t \in starts : ~Held(bookings, last.service_id, t)) =>
                         Len(slots) = 9
                  /\ Held(bookings, last.service_id, At(last.date, 10)) =>
                         /\ Len(slots) <= 8
                         /\ \A k \in DOMAIN slots : slots[k] # At(last.date, 10)

\* C17: listing the slots of a date whose weekday has no operating-hours
\* row, or a row marked closed, or that a CLOSED exception overlaps, returns
\* the empty list whatever the bookings are, from the slot engine and from
\* the public slots endpoint.
C17_ClosedDayHasNoSlots ==
    (last.kind \in {"list", "public"} /\ ~OpenDay(calendar, last.date)) =>
        IF last.kind = "list"
        THEN ~last.result.raised /\ last.result.slots = <<>>
        ELSE last.result = <<>>

\* C18: a request for (service X, start S) is refused if and only if some
\* booking of X whose status is none of the excluded ones has slot_start
\* exactly S; bookings of other services, at other starts or in an excluded
\* status do not count.
C18_RefusedIffSameStartHeld ==
    last.kind = "check" =>
        ( last.result = "taken" <=>
            \E i \in DOMAIN bookings :
                /\ bookings[i].service_id = last.service_id
                /\ bookings[i].slot_start = Some(last.slot_start)
                /\ bookings[i].status \notin InactiveStatuses )

----------------------------------------------------------------------------
(* Claims about the router (SpecRoute).                                    *)

\* The dispatch table: the handler of each intent that has one.
DispatchTable ==
    [ greet               |-> "greet_node",
      list_services       |-> "list_services_node",
      select_service      |-> "handle_service_selection_node",
      ask_service_details |-> "show_service_details_node",
      select_slot         |-> "handle_slot_selection_node",
      provide_contact     |-> "handle_contact_node",
      confirm_booking     |-> "confirm_booking_node",
      complete_booking    |-> "confirm_booking_node",
      check_status        |-> "check_status_node",
      cancel_booking      |-> "cancel_booking_node",
      confirm_cancel      |-> "confirm_cancel_node",
      reschedule          |-> "reschedule_node",
      escalate            |-> "escalate_node" ]

\* C19: routing is total and deterministic: the escalation handler when the
\* escalation signal is set, whatever the intent; otherwise the one handler
\* of the intent's row in the dispatch table (confirm_booking and
\* complete_booking share the confirm handler), and the general fallback
\* handler for cancel, other and any intent outside the enumeration. The
\* handler is always a node of the graph.
C19_RoutingTable ==
    last.kind = "routed" =>
        LET intent == last.state.parsed_intent
        IN  /\ last.node \in HandlerNodes
            /\ last.node =
                  IF last.state.needs_escalation THEN "escalate_node"
                  ELSE IF intent \in DOMAIN DispatchTable THEN DispatchTable[intent]
                  ELSE "general_response_node"
            /\ (~last.state.needs_escalation
                  /\ intent \in {"cancel", "other", UnrecognisedIntent}) =>
                      last.node = "general_response_node"

\* The router sent a greeting with the escalation signal set to the
\* escalation handler.
C19_Witness ==
    /\ last.kind = "routed"
    /\ last.state.needs_escalation
    /\ last.state.parsed_intent = "greet"
    /\ last.node = "escalate_node"

----------------------------------------------------------------------------
(* Claims about the oracle's output (SpecOracle).                          *)

\* The kinds of output that are not a JSON object of the expected structure.
Unparsable == {"not_json", "none", "not_object", "null_contact"}

UnparsableTurn(c) ==
    /\ last'.kind = "turn"
    /\ last'.conv = c
    /\ last'.oracle \in Unparsable

\* The turn did not raise, ran with intent other and no escalation, and the
\* state after it has the service, slot and contact the turn started with.
FallbackTurn(c) ==
    LET old_state == BuildState(bookings, handoffs, c)
    IN  /\ ~last'.raised
        /\ last'.intent = "other"
        /\ ~last'.needs_escalation
        /\ last'.service = old_state.selected_service_id
        /\ last'.requested_slot = InstantOf(old_state.selected_slot_start)
        /\ last'.contact = << old_state.customer_name, old_state.customer_phone,
                              old_state.customer_email >>

\* C20: when the oracle's output cannot be parsed as the expected structure,
\* the turn does not raise, runs with intent other and no entity added to
\* the state, and changes no booking and no handoff.
C20_UnparsableOutputFallsBack ==
    [][\A c \in Convs :
          UnparsableTurn(c) =>
              /\ FallbackTurn(c)
              /\ bookings' = bookings
              /\ handoffs' = handoffs]_vars

\* What send_message stored of the turn on c: the user message and an
\* assistant reply.
StoredExchange(c) == messages'[c] = Append(Append(messages[c], "user"), "assistant")

\* C21: when the oracle call itself fails or times out, send_message still
\* completes the turn: it returns a response with intent other and stores the
\* user message and an assistant reply, and no error reaches the caller.
C21_OracleFailureCompletesTurn ==
    [][\A c \in Convs :
          (last'.kind = "turn" /\ last'.conv = c /\ last'.oracle = "call_failed") =>
              /\ ~last'.raised
              /\ last'.intent = "other"
              /\ StoredExchange(c)]_vars

----------------------------------------------------------------------------
(* Claims about the lookup by tracking code (SpecBooking).                 *)

ByCodeOps ==
    {"get_booking_by_tracking_id", "public_get_booking_by_tracking_id",
     "cancel_booking_by_tracking_id", "reschedule_booking_by_tracking_id"}

\* C22: every operation that takes a tracking code finds the stored booking
\* whose code is the typed one in any upper/lower-case spelling.
C22_LookupIgnoresCase ==
    (last.kind = "op" /\ last.op \in ByCodeOps) =>
        \A i \in DOMAIN bookings :
            bookings[i].public_tracking_id = upper(last.code) => last.row = i

----------------------------------------------------------------------------
(* Claims about the booking state machine under turns (SpecLong).          *)

HasSlot(b) == IsSome(b.slot_start)

HasContact(b) ==
    IsSome(b.customer_name) /\ IsSome(b.customer_phone) /\ IsSome(b.customer_email)

\* C23: the pre-confirmation statuses are traversed in the order INITIATED,
\* SLOT_SELECTED, CONTACT_COLLECTED: after every step a booking in
\* SLOT_SELECTED has a slot and one in CONTACT_COLLECTED has a slot and the
\* three contact fields, and no step takes a booking from INITIATED to
\* CONTACT_COLLECTED or from CONTACT_COLLECTED back to SLOT_SELECTED.
C23_PreConfirmationOrder ==
    [][/\ \A i \in DOMAIN bookings' :
             /\ bookings'[i].status = "SLOT_SELECTED" => HasSlot(bookings'[i])
             /\ bookings'[i].status = "CONTACT_COLLECTED" =>
                    HasSlot(bookings'[i]) /\ HasContact(bookings'[i])
       /\ \A i \in DOMAIN bookings :
             /\ ~(bookings[i].status = "INITIATED"
                    /\ bookings'[i].status = "CONTACT_COLLECTED")
             /\ ~(bookings[i].status = "CONTACT_COLLECTED"
                    /\ bookings'[i].status = "SLOT_SELECTED")]_vars

----------------------------------------------------------------------------
(* SpecRelease: one or two stored bookings with a slot, one of them         *)
(* cancelled by its tracking code, and then the slot engine asked about the *)
(* slot the cancelled booking held.                                         *)

ReleaseStatuses ==
    {"SLOT_SELECTED", "CONTACT_COLLECTED", "CONFIRMED", "RESCHEDULED", "CANCELLED"}

ReleaseBookings(conversation_id, tracking_id) ==
    { [ NewBooking(svc, conversation_id, tracking_id) EXCEPT
          !.status = st, !.slot_start = Some(t), !.slot_end = Some(t + DefaultDuration) ] :
      svc \in StoredServices, st \in ReleaseStatuses, t \in StoredStarts }

ReleaseTables ==
    { <<b>> : b \in ReleaseBookings("conv1", "BK-A1B2C3") }
    \cup { <<b1, b2>> : b1 \in ReleaseBookings("conv1", "BK-A1B2C3"),
                        b2 \in ReleaseBookings("conv2", "BK-D4E5F6") }

InitRelease ==
    /\ bookings \in ReleaseTables
    /\ calendar = OpenCalendar
    /\ handoffs = <<>>
    /\ conversations = InitConversations
    /\ messages = [c \in Convs |-> <<>>]
    /\ inflight = [c \in Convs |-> None]
    /\ last = NoEvent

\* cancel_booking_by_tracking_id; the event keeps the row as it was.
ReleaseCancel(code) ==
    /\ last.kind = "none"
    /\ RowOf(code) # 0
    /\ \E res \in {cancel_booking_by_tracking_id(bookings, code)} :
          /\ bookings' = res.bookings
          /\ last' = [ kind |-> "cancel", ok |-> res.ok, before |-> bookings[RowOf(code)] ]
    /\ UNCHANGED <<handoffs, conversations, messages, inflight, calendar>>

\* After a cancel that succeeded: get_available_slots for the date of the
\* slot, and validate_and_reserve_slot for the slot as step 2 of a turn of
\* another conversation calls it.
ReleaseAsk ==
    /\ last.kind = "cancel"
    /\ last.ok
    /\ \E svc \in {last.before.service_id}, t \in {Val(last.before.slot_start)} :
          last' = [ kind       |-> "asked",
                    service_id |-> svc,
                    slot_start |-> t,
                    listed     |-> get_available_slots(bookings, calendar, svc, DateOf(t),
                                                       DefaultDuration),
                    reserve    |-> validate_and_reserve_slot(bookings, calendar, svc, t,
                                                             t + DefaultDuration) ]
    /\ UNCHANGED <<bookings, handoffs, conversations, messages, inflight, calendar>>

NextRelease ==
    \/ \E code \in TrackingCodes : ReleaseCancel(code)
    \/ ReleaseAsk

SpecRelease == InitRelease /\ [][NextRelease]_vars

----------------------------------------------------------------------------
(* SpecFail: turns of the two conversations on a table that holds the       *)
(* bookings of two earlier conversations, which may hold the same slot (as  *)
(* two overlapping turns leave them).                                       *)

MaxFailTurns == 2

EarlierBookings(conversation_id, tracking_id) ==
    { [ NewBooking("svc1", conversation_id, tracking_id) EXCEPT
          !.status = st, !.slot_start = Some(t), !.slot_end = Some(t + DefaultDuration) ] :
      st \in {"CONFIRMED", "CANCELLED"}, t \in Times \cup {Noon} }

InitFail ==
    /\ bookings \in { <<b1, b2>> : b1 \in EarlierBookings("conv3", "BK-G7H8J9"),
                                   b2 \in EarlierBookings("conv4", "BK-K2L3M4") }
    /\ handoffs = <<>>
    /\ conversations = InitConversations
    /\ messages = [c \in Convs |-> <<>>]
    /\ inflight = [c \in Convs |-> None]
    /\ calendar = OpenCalendar
    /\ last = NoEvent

FailExtractions ==
    { ex \in Extractions :
        /\ ex.intent \in {"other", "complete_booking"}
        /\ ~ex.wants_human
        /\ IsSome(ex.name) = IsSome(ex.phone)
        /\ IsSome(ex.name) = IsSome(ex.email) }

FailTurn(c) == TurnOn(c, FailExtractions, MaxFailTurns, FALSE)

NextFail == \E c \in Convs : FailTurn(c)

SpecFail == InitFail /\ [][NextFail]_vars

----------------------------------------------------------------------------
(* SpecShorten: _shorten_for_voice applied to a response text. A text is    *)
(* its lines in order; a line is its number of characters other than        *)
(* markdown marks and bullets (chars) and the number of those marks         *)
(* (marks). Lines are joined by line breaks, sentences by ". ".             *)

\* len(text) > 300
VoiceCap == 300

\* len(short_text) + len(sentence) < 250
SentenceBudget == 250

MaxLines == 3

TextLines ==
    { [chars |-> n, marks |-> m] : n \in {40, 120, 260, 310}, m \in {0, 4} }
    \cup { [chars |-> 0, marks |-> 2] }

Texts == UNION { [1 .. k -> TextLines] : k \in 1 .. MaxLines }

RECURSIVE SumOf(_)
SumOf(lengths) == IF lengths = <<>> THEN 0 ELSE Head(lengths) + SumOf(Tail(lengths))

\* len(". ".join(sentences))
JoinedLength(sentences) ==
    IF sentences = <<>> THEN 0 ELSE SumOf(sentences) + 2 * (Len(sentences) - 1)

RECURSIVE cleaned_lines(_)
\* The marks removed, the line breaks turned into ". ", every piece stripped
\* and the empty ones dropped: the lengths of the pieces that remain.
cleaned_lines(lines) ==
    IF lines = <<>> THEN <<>>
    ELSE (IF Head(lines).chars > 0 THEN <<Head(lines).chars>> ELSE <<>>)
         \o cleaned_lines(Tail(lines))

RECURSIVE short_text(_, _)
\* The loop over the sentences: a sentence is appended, with ". ", while the
\* text so far plus the sentence stays under the budget; the first sentence
\* that does not fit ends the loop.
short_text(sentences, so_far) ==
    IF sentences = <<>> THEN <<>>
    ELSE IF so_far + Head(sentences) < SentenceBudget
    THEN <<Head(sentences)>>
         \o short_text(Tail(sentences), so_far + Head(sentences) + 2)
    ELSE <<>>

\* _shorten_for_voice: the sentences of the utterance and its length (the
\* cut text ends with "." after strip()).
shorten_lines(lines) ==
    LET cleaned == cleaned_lines(lines)
        kept == short_text(cleaned, 0)
    IN  IF JoinedLength(cleaned) > VoiceCap
        THEN [ sentences |-> kept,
               length    |-> IF kept = <<>> THEN 0 ELSE SumOf(kept) + 2 * Len(kept) - 1 ]
        ELSE [ sentences |-> cleaned, length |-> JoinedLength(cleaned) ]

InitShorten ==
    /\ bookings = <<>>
    /\ handoffs = <<>>
    /\ conversations = InitConversations
    /\ messages = [c \in Convs |-> <<>>]
    /\ inflight = [c \in Convs |-> None]
    /\ calendar = OpenCalendar
    /\ \E text \in Texts : last = [kind |-> "text", text |-> text]

ShortenForVoice ==
    /\ last.kind = "text"
    /\ last' = [ kind |-> "spoken", text |-> last.text,
                 utterance |-> shorten_lines(last.text) ]
    /\ UNCHANGED <<bookings, handoffs, conversations, messages, inflight, calendar>>

NextShorten == ShortenForVoice

SpecShorten == InitShorten /\ [][NextShorten]_vars

----------------------------------------------------------------------------
(* Claims about the voice channel (SpecVoice).                             *)

\* The fields of the returned dictionary other than the text.
NonText(result) == [result EXCEPT !.response = "text"]

\* ChatService.send_message on the state before the step, with extraction
\* ex and the drawn codes, leaves the tables of the state after the step and
\* returns the non-text fields the step returned.
SameAsChat(c, ex, tracking_id, ticket_id) ==
    LET old_state == BuildState(bookings, handoffs, c)
        ctx == HandleTurn(bookings, handoffs, conversations, old_state, ex,
                          tracking_id, ticket_id)
    IN  /\ Persist(c, ctx)
        /\ last'.raised = ctx.raised
        /\ NonText(last'.result) = NonText(send_message_result(c, ctx, old_state))

\* C24: every step of VoiceChatService.send_message leaves the bookings,
\* handoffs, conversation records and stored messages, and returns the
\* non-text fields, that ChatService.send_message does from the same state
\* with the same oracle output; only the returned text differs.
C24_VoiceChangesOnlyText ==
    [][\A c \in VoiceConvs :
          (last'.kind = "turn" /\ last'.conv = c /\ last'.channel = "voice") =>
              \E ex \in {last'.heard} :
                  /\ ex \in VoiceExtractions
                  /\ \E tracking_id \in TrackingDraws(bookings),
                        ticket_id \in TicketDraws(handoffs) :
                        SameAsChat(c, ex, tracking_id, ticket_id)]_vars

\* A voice turn confirmed a booking and returned its status with a spoken
\* text.
C24_Witness ==
    /\ last.kind = "turn"
    /\ last.channel = "voice"
    /\ last.result.response.form = "spoken"
    /\ last.result.booking_status = Some("CONFIRMED")
    /\ \E i \in DOMAIN bookings :
          bookings[i].conversation_id = last.conv /\ bookings[i].status = "CONFIRMED"

----------------------------------------------------------------------------
(* Claims about what follows CONFIRMED and CANCELLED (SpecLong).           *)

\* C25: a booking in status CONFIRMED stays CONFIRMED or goes to CANCELLED
\* or RESCHEDULED; no turn sets it back to SLOT_SELECTED or
\* CONTACT_COLLECTED.
C25_ConfirmedLeavesByCancelOrReschedule ==
    [][\A i \in DOMAIN bookings :
          bookings[i].status = "CONFIRMED" =>
              bookings'[i].status \in {"CONFIRMED", "CANCELLED", "RESCHEDULED"}]_vars

\* The slot and contact fields of a booking.
SlotAndContact(b) ==
    << b.slot_start, b.slot_end, b.customer_name, b.customer_phone, b.customer_email >>

\* C26: CANCELLED is absorbing: a turn leaves the status, slot and contact
\* fields of every CANCELLED booking as they were, and a booking the cancel
\* step of a turn cancelled ends that turn CANCELLED with the slot and
\* contact fields it had.
C26_CancelledIsAbsorbing ==
    [][\A i \in DOMAIN bookings :
          (bookings[i].status = "CANCELLED"
             \/ (last'.kind = "turn" /\ i \in last'.cancelled)) =>
                /\ bookings'[i].status = "CANCELLED"
                /\ SlotAndContact(bookings'[i]) = SlotAndContact(bookings[i])]_vars

----------------------------------------------------------------------------
(* Claims about rescheduling.                                              *)

\* C27: a booking comes to status RESCHEDULED only from CONFIRMED: no step
\* takes a booking in another status to RESCHEDULED (SpecBooking).
C27_RescheduledOnlyFromConfirmed ==
    [][\A i \in DOMAIN bookings :
          (bookings'[i].status = "RESCHEDULED" /\ bookings[i].status # "RESCHEDULED")
              => bookings[i].status = "CONFIRMED"]_vars

\* Booking i was rescheduled by the step: it is RESCHEDULED after it and its
\* status or slot changed.
RescheduledNow(i) ==
    /\ bookings'[i].status = "RESCHEDULED"
    /\ IsSome(bookings'[i].slot_start)
    /\ (bookings[i].status # "RESCHEDULED"
          \/ bookings'[i].slot_start # bookings[i].slot_start)

\* C28: with turns one at a time, a reschedule never gives a booking a start
\* that another non-terminal booking of the same service holds (SpecLong).
C28_RescheduleKeepsNoDoubleBooking ==
    [][\A i \in DOMAIN bookings :
          RescheduledNow(i) =>
              SlotHolders(bookings, bookings[i].service_id,
                          Val(bookings'[i].slot_start)) \ {i} = {}]_vars

----------------------------------------------------------------------------
(* Claims about contact details given over several turns (Spec).           *)

\* Which of name, phone and email a turn's state held.
Given(contact) == { k \in 1..3 : IsSome(contact[k]) }

\* Two turns of conversation c in a row, its booking holding no contact
\* field before either: the first gave some of the three fields, the second
\* gave the rest and not all three.
ContactInTwoTurns(c) ==
    /\ last.kind = "turn" /\ last.conv = c /\ ~last.raised
    /\ last'.kind = "turn" /\ last'.conv = c /\ ~last'.raised
    /\ ~last'.needs_escalation
    /\ IsSome(BookingBefore(c))
    /\ SlotAndContact(Val(BookingBefore(c)))[3] = None
    /\ SlotAndContact(Val(BookingBefore(c)))[4] = None
    /\ SlotAndContact(Val(BookingBefore(c)))[5] = None
    /\ Given(last.contact) \notin {{}, 1..3}
    /\ Given(last'.contact) \notin {{}, 1..3}
    /\ Given(last.contact) \cup Given(last'.contact) = 1..3

\* C29: contact details accumulate across turns: after the turn that gives
\* the last missing field the conversation's booking holds name, phone and
\* email and is in CONTACT_COLLECTED.
C29_ContactAccumulates ==
    [][\A c \in Convs :
          ContactInTwoTurns(c) =>
              /\ HasContact(bookings'[Val(BookingBefore(c)).booking_id])
              /\ bookings'[Val(BookingBefore(c)).booking_id].status =
                     "CONTACT_COLLECTED"]_vars

----------------------------------------------------------------------------
(* Claims about the intents that take a tracking code (SpecLong).          *)

\* A completed turn of conversation c with the given intent that mentions no
\* tracking code, c having an active booking.
TurnWithoutCode(c, intent) ==
    /\ last'.kind = "turn" /\ last'.conv = c /\ ~last'.raised
    /\ last'.intent = intent
    /\ last'.mentioned = None
    /\ IsSome(BookingBefore(c))

\* C30: without a tracking code in the message, confirm_cancel and
\* reschedule act on the conversation's own active booking: confirm_cancel
\* cancels it, and a reschedule turn that gives a new slot sets that slot on
\* it and sets it to RESCHEDULED.
C30_OwnBookingWithoutCode ==
    [][\A c \in Convs :
          /\ TurnWithoutCode(c, "confirm_cancel") =>
                Val(BookingBefore(c)).booking_id \in last'.cancelled
          /\ (/\ TurnWithoutCode(c, "reschedule")
              /\ IsSome(last'.requested_slot)
              /\ last'.requested_slot # Val(BookingBefore(c)).slot_start) =>
                /\ bookings'[Val(BookingBefore(c)).booking_id].status = "RESCHEDULED"
                /\ bookings'[Val(BookingBefore(c)).booking_id].slot_start =
                       last'.requested_slot]_vars

----------------------------------------------------------------------------
(* Claims about what a turn may write (SpecLong).                          *)

\* The intents whose handlers only answer.
AnswerOnlyIntents == {"greet", "list_services", "ask_service_details", "other"}

\* C31: a turn routed to greet, list_services, ask_service_details or other
\* creates no booking and no handoff and changes no field of any booking,
\* whatever the oracle extracted with the intent.
C31_AnswerOnlyIntentsWriteNothing ==
    [][(last'.kind = "turn" /\ last'.intent \in AnswerOnlyIntents) =>
           (bookings' = bookings /\ handoffs' = handoffs)]_vars

\* The booking of c holds a slot and the three contact fields and is not yet
\* confirmed, and the step is a completed confirm_booking turn of c that
\* brings no new slot and no new contact.
ConfirmTurnOnCompleteBooking(c) ==
    /\ IsSome(BookingBefore(c))
    /\ HasSlot(Val(BookingBefore(c)))
    /\ HasContact(Val(BookingBefore(c)))
    /\ Val(BookingBefore(c)).status \in {"INITIATED", "SLOT_SELECTED", "CONTACT_COLLECTED"}
    /\ last'.kind = "turn" /\ last'.conv = c /\ ~last'.raised
    /\ last'.intent = "confirm_booking"
    /\ last'.slot_check = "skip"
    /\ last'.contact = << Val(BookingBefore(c)).customer_name,
                          Val(BookingBefore(c)).customer_phone,
                          Val(BookingBefore(c)).customer_email >>

\* C32: when the conversation's booking has service, slot and the three
\* contact fields stored, in whichever order they were collected, a
\* confirm_booking turn leaves the booking CONFIRMED.
C32_ConfirmTurnConfirms ==
    [][\A c \in Convs :
          ConfirmTurnOnCompleteBooking(c) =>
              bookings'[Val(BookingBefore(c)).booking_id].status = "CONFIRMED"]_vars

----------------------------------------------------------------------------
(* Claims about cancelling and the slot (SpecRelease).                     *)

\* C33: after a booking holding (service, S) is cancelled, the available
\* slots of the date of S include S and a reservation request for
\* (service, S) is reported available.
C33_CancelReleasesSlot ==
    last.kind = "asked" =>
        /\ ~last.listed.raised
        /\ \E k \in DOMAIN last.listed.slots : last.listed.slots[k] = last.slot_start
        /\ last.reserve.available

\* The same when the cancelled booking was the only counted holder.
C33_SoleHolderReleased ==
    (last.kind = "asked"
       /\ SlotHolders(bookings, last.service_id, last.slot_start) = {}) =>
        /\ \E k \in DOMAIN last.listed.slots : last.listed.slots[k] = last.slot_start
        /\ last.reserve.available

----------------------------------------------------------------------------
(* Claims about escalation and confirmation (SpecVoice, SpecLong).         *)

\* Booking i was cancelled, rescheduled or confirmed by the step.
SideEffectOn(i) ==
    /\ bookings'[i].status \in {"CANCELLED", "RESCHEDULED", "CONFIRMED"}
    /\ (i \in DOMAIN bookings =>
           \/ bookings[i].status # bookings'[i].status
           \/ bookings[i].slot_start # bookings'[i].slot_start)

\* C34: a turn in which the oracle gave the escalation signal cancels,
\* reschedules and confirms no booking, whatever intent came with the signal.
C34_EscalationPreemptsSideEffects ==
    [][(last'.kind = "turn" /\ last'.needs_escalation) =>
           /\ last'.cancelled = {}
           /\ \A i \in DOMAIN bookings' : ~SideEffectOn(i)]_vars

\* C35: a turn that reports slot_unavailable=true does not move a booking of
\* its conversation to CONFIRMED.
C35_UnavailableSlotNeverConfirms ==
    [][(last'.kind = "turn" /\ last'.slot_unavailable) =>
           \A i \in DOMAIN bookings' :
               (bookings'[i].conversation_id = last'.conv
                  /\ bookings'[i].status = "CONFIRMED") =>
                   (i \in DOMAIN bookings /\ bookings[i].status = "CONFIRMED")]_vars

----------------------------------------------------------------------------
(* Claims about separate conversations (SpecVoice).                        *)

\* The bookings and handoffs of conversation b, by row.
RowsOf(table, b) == { i \in DOMAIN table : table[i].conversation_id = b }

\* The step leaves every record of conversation b as it was.
Untouched(b) ==
    /\ RowsOf(bookings', b) = RowsOf(bookings, b)
    /\ \A i \in RowsOf(bookings, b) : bookings'[i] = bookings[i]
    /\ RowsOf(handoffs', b) = RowsOf(handoffs, b)
    /\ \A i \in RowsOf(handoffs, b) : handoffs'[i] = handoffs[i]
    /\ messages'[b] = messages[b]
    /\ conversations'[b] = conversations[b]

\* C36: a turn of conversation A whose extraction mentions no tracking code
\* leaves every booking, handoff, message and conversation record of every
\* other conversation unchanged.
C36_ConversationsIsolated ==
    [][\A c \in Convs :
          (last'.kind = "turn" /\ last'.conv = c /\ last'.mentioned = None) =>
              \A b \in Convs \ {c} : Untouched(b)]_vars

\* A turn without a code confirmed a booking of its conversation and opened
\* a handoff while the other conversation has a booking and a handoff.
C36_Witness ==
    /\ last.kind = "turn"
    /\ last.mentioned = None
    /\ last.confirmed
    /\ last.handoff_created
    /\ \E b \in Convs \ {last.conv} : RowsOf(bookings, b) # {} /\ RowsOf(handoffs, b) # {}

----------------------------------------------------------------------------
(* Claims about a turn that fails (SpecFail).                              *)

RECURSIVE Alternates(_)
\* The history is user message, assistant reply, user message, ...
Alternates(ms) ==
    IF ms = <<>> THEN TRUE
    ELSE /\ Len(ms) >= 2
         /\ ms[1] = "user" /\ ms[2] = "assistant"
         /\ Alternates(SubSeq(ms, 3, Len(ms)))

\* C37: a send_message call that fails persists nothing of its turn: no
\* booking or handoff created or changed and no user message stored, so the
\* stored history of every conversation alternates user message, assistant
\* reply after every turn.
C37_FailedTurnPersistsNothing ==
    [][/\ (last'.kind = "turn" /\ last'.raised) =>
              /\ bookings' = bookings
              /\ handoffs' = handoffs
              /\ messages' = messages
              /\ conversations' = conversations
       /\ \A c \in Convs : Alternates(messages'[c])]_vars

----------------------------------------------------------------------------
(* Claims about the voice transform (SpecShorten).                         *)

\* C38: for every non-empty response text the voice transform returns a
\* non-empty utterance of at most 300 characters, also when the first
\* sentence alone reaches the cap.
C38_UtteranceNonEmptyAndCapped ==
    last.kind = "spoken" =>
        /\ last.utterance.length > 0
        /\ last.utterance.length <= VoiceCap

\* The length part alone.
C38_UtteranceCapped ==
    last.kind = "spoken" => last.utterance.length <= VoiceCap

====
